---------------------------- MODULE Spec2Model ----------------------------
(***************************************************************************)
(* Deduction reports: the server actions of src/src/app/deductions/        *)
(* actions.ts (submitDeductions, parseSubmissionsFromRows,                 *)
(* getAllSubmissions, updateReportStatus) over a spreadsheet-backed store. *)
(*                                                                         *)
(* Modelling conventions                                                   *)
(*  - A JavaScript string is a sequence of one-character strings, so that  *)
(*    split, replace, startsWith, parseFloat and the < of strings are      *)
(*    computed character by character.  The Arabic literals of the source  *)
(*    are written in a Latin transliteration that keeps their word         *)
(*    structure (the same number of words, separated by one space).        *)
(*  - A JavaScript value is a tagged record: Undefined, Str(s), Num(v),    *)
(*    NaN.  Num(v) is the decimal number v/100 (v an integer count of      *)
(*    hundredths); arithmetic is exact decimal arithmetic.                 *)
(*  - A sheet row is what the Sheets API returns: a sequence of strings    *)
(*    with the trailing empty cells cut off; reading a cell beyond the     *)
(*    end of a row gives Undefined, as row[i] does.                        *)
(***************************************************************************)
EXTENDS Integers, Sequences, FiniteSets, TLC

VARIABLES
    configured,      \* whether getSheetsApi returns a client (the environment)
    header,          \* per company, the header row of its REQUEST sheet
    sheet,           \* per company, the data rows (row 2 on) of its REQUEST sheet
    mockSubmissions, \* the in-process list of the server
    clock,           \* seconds since 2024-06-01 00:00:00, Africa/Cairo time
    upd,             \* the updateReportStatus call in flight, or NoCall
    last,            \* what the last completed server action returned
    rows,            \* the argument of a direct call of parseSubmissionsFromRows
    parsed,          \* the Submission[] returned by the last action, if it returns one
    pc,              \* position of the direct call: "input", "parsed", "threw"
    users,           \* the data rows (row 2 on) of the Users sheet
    auth,            \* the session store of the browser (useAuthStore)
    form,            \* the login form: email field, debounce timer, lookups, userRole
    dash             \* the admin dashboard: isUpdating, calls in flight, submissions

vars ==
    <<configured, header, sheet, mockSubmissions, clock, upd, last, rows, parsed, pc,
      users, auth, form, dash>>

\* What the server actions other than updateReportStatus leave alone.
clientVars == <<users, auth, form, dash>>

\* What updateReportStatus leaves alone when the dashboard calls it.
sessionVars == <<users, auth, form>>

storeVars == <<configured, header, sheet, mockSubmissions, clock, upd, last>>

---------------------------------------------------------------------------
(* Characters and strings                                                  *)

\* The characters used, in increasing order of their UTF-16 code unit.
Chars ==
    << " ", "-", ".", "0", "1", "2", "3", "4", "5", "6", "7", "8", "9", ":",
       "@", "A", "B", "C", "D", "E", "M", "P", "Q", "R", "S", "T", "U", "V",
       "a", "b", "c", "d", "e", "f", "i", "j", "k", "l", "m", "n", "o", "p",
       "q", "r", "s", "t", "u", "w", "x", "y" >>

\* Position of a character in the code-unit order.
Code(c) == CHOOSE i \in DOMAIN Chars : Chars[i] = c

IsDigit(c) == c \in {"0", "1", "2", "3", "4", "5", "6", "7", "8", "9"}

DigitVal(c) == Code(c) - Code("0")

\* The regular expression class \s, over the characters used.
IsSpace(c) == c = " "

Drop(s, n) == SubSeq(s, n + 1, Len(s))

Take(s, n) == SubSeq(s, 1, n)

\* String.prototype.startsWith
StartsWith(s, p) == Len(p) <= Len(s) /\ Take(s, Len(p)) = p

\* a < b on strings: the first differing code unit decides, a proper prefix
\* is smaller.
RECURSIVE StrLess(_, _)
StrLess(a, b) ==
    IF b = <<>> THEN FALSE
    ELSE IF a = <<>> THEN TRUE
    ELSE IF a[1] # b[1] THEN Code(a[1]) < Code(b[1])
    ELSE StrLess(Tail(a), Tail(b))

\* s.replace(/\s|:/g, '-')
ReplaceSpaceColon(s) ==
    [i \in 1..Len(s) |-> IF IsSpace(s[i]) \/ s[i] = ":" THEN "-" ELSE s[i]]

\* Length of the longest prefix of s made of digits.
RECURSIVE DigitRun(_)
DigitRun(s) ==
    IF s # <<>> /\ IsDigit(s[1]) THEN 1 + DigitRun(Tail(s)) ELSE 0

\* Number of leading white-space characters of s.
RECURSIVE SpaceRun(_)
SpaceRun(s) ==
    IF s # <<>> /\ IsSpace(s[1]) THEN 1 + SpaceRun(Tail(s)) ELSE 0

\* Value of a string of digits.
RECURSIVE DigitsValue(_)
DigitsValue(s) ==
    IF s = <<>> THEN 0
    ELSE 10 * DigitsValue(Take(s, Len(s) - 1)) + DigitVal(s[Len(s)])

\* Decimal digits of a natural number.
RECURSIVE Digits(_)
Digits(n) ==
    IF n < 10 THEN <<Chars[Code("0") + n]>>
    ELSE Digits(n \div 10) \o <<Chars[Code("0") + (n % 10)]>>

\* s.split(' '): the pieces between single space characters ("" gives [""]).
RECURSIVE Split(_)
Split(s) ==
    LET idx == {i \in 1..Len(s) : s[i] = " "}
    IN  IF idx = {} THEN <<s>>
        ELSE LET i == CHOOSE k \in idx : \A j \in idx : k <= j
             IN  <<Take(s, i - 1)>> \o Split(Drop(s, i))

\* The upper-case letters and, at the same positions, their lower-case
\* letters.
UpperLetters == <<"A", "B", "C", "D", "E", "F", "G", "H", "I", "J", "K", "L", "M", "N",
                 "O", "P", "Q", "R", "S", "T", "U", "V", "W", "X", "Y", "Z">>

LowerLetters == <<"a", "b", "c", "d", "e", "f", "g", "h", "i", "j", "k", "l", "m", "n",
                 "o", "p", "q", "r", "s", "t", "u", "v", "w", "x", "y", "z">>

\* String.prototype.toLowerCase
ToLowerCase(s) ==
    [i \in 1..Len(s) |->
        IF \E k \in 1..26 : UpperLetters[k] = s[i]
        THEN LowerLetters[CHOOSE k \in 1..26 : UpperLetters[k] = s[i]]
        ELSE s[i]]

\* String.prototype.trim
RECURSIVE Trim(_)
Trim(s) ==
    IF s # <<>> /\ IsSpace(s[1]) THEN Trim(Tail(s))
    ELSE IF s # <<>> /\ IsSpace(s[Len(s)]) THEN Trim(Take(s, Len(s) - 1))
    ELSE s

\* The elements of s without repetition, in order of first occurrence.
RECURSIVE Dedup(_)
Dedup(s) ==
    IF s = <<>> THEN <<>>
    ELSE LET h == Dedup(Take(s, Len(s) - 1))
             x == s[Len(s)]
         IN  IF \E i \in 1..Len(h) : h[i] = x THEN h ELSE Append(h, x)

---------------------------------------------------------------------------
(* JavaScript values                                                       *)

Undefined == [t |-> "undefined"]

Str(s) == [t |-> "string", s |-> s]

Num(v) == [t |-> "number", v |-> v]

NaN == [t |-> "NaN"]

\* No call in flight, nothing returned yet.
NoCall == [op |-> "none"]

\* null
Null == [t |-> "null"]

\* The login form as mounted: useState('') for the email, useState(null) for
\* userRole, no timer and no lookup.
FormAtRest == [email |-> <<>>, timer |-> FALSE, lookups |-> <<>>, userRole |-> Null]

\* The admin dashboard as mounted: useState(null) for isUpdating, useState([])
\* for submissions, no call made.
DashAtRest == [isUpdating |-> Null, calls |-> <<>>, submissions |-> <<>>]

\* The initial state of useAuthStore, and its state after logout().
LoggedOut == [email |-> Null, role |-> Null, isAuthenticated |-> FALSE]

\* row[i] (i counted from 0, as in the source)
Cell(row, i) == IF i < Len(row) THEN Str(row[i + 1]) ELSE Undefined

\* ToBoolean
Truthy(v) ==
    CASE v.t = "string" -> v.s # <<>>
      [] v.t = "number" -> v.v # 0
      [] OTHER -> FALSE

\* a || b
OrElse(a, b) == IF Truthy(a) THEN a ELSE b

\* Number to string: no fraction digits when integral, else one or two.
FormatNumber(v) ==
    LET a == IF v < 0 THEN -v ELSE v
        f == a % 100
        frac == IF f = 0 THEN <<>>
                ELSE IF f % 10 = 0 THEN <<".">> \o Digits(f \div 10)
                ELSE <<".", Chars[Code("0") + (f \div 10)], Chars[Code("0") + (f % 10)]>>
    IN  (IF v < 0 THEN <<"-">> ELSE <<>>) \o Digits(a \div 100) \o frac

\* ToString, as applied by a template literal `${v}`
ToStr(v) ==
    CASE v.t = "string" -> v.s
      [] v.t = "number" -> FormatNumber(v.v)
      [] v.t = "NaN" -> <<"N", "a", "N">>
      [] OTHER -> <<"u", "n", "d", "e", "f", "i", "n", "e", "d">>

\* parseFloat on a string: leading white space, an optional sign, digits and
\* an optional fraction; anything after is ignored; no digit at all gives
\* NaN.  Fraction digits beyond the second are dropped and an exponent is
\* not read (the inputs used have neither).
ParseFloatStr(s) ==
    LET t == Drop(s, SpaceRun(s))
        neg == t # <<>> /\ t[1] = "-"
        u == IF t # <<>> /\ t[1] \in {"-", "+"} THEN Tail(t) ELSE t
        ni == DigitRun(u)
        w == Drop(u, ni)
        nf == IF w # <<>> /\ w[1] = "." THEN DigitRun(Tail(w)) ELSE 0
        fd == IF nf = 0 THEN <<>> ELSE SubSeq(w, 2, 1 + nf)
        f2 == Take(fd \o <<"0", "0">>, 2)
        mag == 100 * DigitsValue(Take(u, ni)) + DigitsValue(f2)
    IN  IF ni = 0 /\ nf = 0 THEN NaN
        ELSE Num(IF neg THEN -mag ELSE mag)

\* parseFloat(v): the argument is converted to a string first.
ParseFloat(v) == ParseFloatStr(ToStr(v))

\* Number(v) for the values that reach it: a number is itself, the empty
\* string is 0, any other string is read as a whole.
ToNumber(v) ==
    CASE v.t = "number" -> v
      [] v.t = "NaN" -> NaN
      [] v.t = "undefined" -> NaN
      [] OTHER ->
            IF v.s = <<>> THEN Num(0)
            ELSE LET r == ParseFloatStr(v.s)
                 IN  IF r.t = "number" /\ FormatNumber(r.v) = v.s THEN r ELSE NaN

\* a * b on numbers; NaN is absorbing.
Mul(a, b) ==
    IF a.t = "NaN" \/ b.t = "NaN" THEN NaN ELSE Num((a.v * b.v) \div 100)

\* a + b on numbers; NaN is absorbing.
Add(a, b) ==
    IF a.t = "NaN" \/ b.t = "NaN" THEN NaN ELSE Num(a.v + b.v)

---------------------------------------------------------------------------
(* Literals of the source (transliterated)                                 *)

\* 'qyd almrajet' stands for the pending-review literal (two words).
PENDING == <<"q", "y", "d", " ", "a", "l", "m", "r", "a", "j", "e", "t">>

\* 'mwafqt' stands for the approved literal (one word).
APPROVED == <<"m", "w", "a", "f", "q", "t">>

\* 'mrfwd' stands for the rejected literal (one word).
REJECTED == <<"m", "r", "f", "w", "d">>

\* The three units of the form, each 'mtr' followed by a second word.
meterUnits ==
    << <<"m", "t", "r", " ", "m", "s", "t", "k">>,
       <<"m", "t", "r", " ", "m", "r", "b", "e">>,
       <<"m", "t", "r", " ", "m", "k", "e", "b">> >>

\* The prefix of every report key.
ReportPrefix == <<"r", "e", "p", "o", "r", "t", "-">>

---------------------------------------------------------------------------
(* Object keys                                                             *)

\* A canonical array index: such property keys are enumerated first, in
\* ascending numeric order, before the other keys in insertion order.
IsArrayIndex(k) ==
    /\ k # <<>>
    /\ DigitRun(k) = Len(k)
    /\ Len(k) <= 9
    /\ (Len(k) > 1 => k[1] # "0")

\* s (numeric strings, repetition-free) in ascending numeric order.
RECURSIVE SortIndexKeys(_)
SortIndexKeys(s) ==
    IF s = <<>> THEN <<>>
    ELSE LET i == CHOOSE k \in 1..Len(s) :
                      \A j \in 1..Len(s) : DigitsValue(s[k]) <= DigitsValue(s[j])
         IN  <<s[i]>> \o SortIndexKeys(Take(s, i - 1) \o Drop(s, i))

\* Object.keys order of an object whose keys were inserted in the order ks.
OwnKeys(ks) ==
    LET d == Dedup(ks)
    IN  SortIndexKeys(SelectSeq(d, IsArrayIndex))
            \o SelectSeq(d, LAMBDA k : ~IsArrayIndex(k))

---------------------------------------------------------------------------
(* parseSubmissionsFromRows                                                *)

\* `${row[0]} ${row[1]}`
timestampKey(row) == ToStr(Cell(row, 0)) \o <<" ">> \o ToStr(Cell(row, 1))

\* The rows of one key of groupedByTimestamp, in input order.
groupedByTimestamp(rs, key) == SelectSeq(rs, LAMBDA r : timestampKey(r) = key)

\* The Deduction built from one row.
deductionOfRow(row) ==
    LET parts == Split(ToStr(OrElse(Cell(row, 8), Str(<<>>))))
        meterValue == parts[1]
        meterUnit == IF Len(parts) >= 2 THEN Str(parts[2]) ELSE Undefined
    IN  [ contractName |-> Cell(row, 5),
          itemName |-> Cell(row, 6),
          workDescription |-> Cell(row, 7),
          meterEquivalentValue |->
              IF meterValue # <<>> THEN ParseFloatStr(meterValue) ELSE Str(<<>>),
          meterEquivalentUnit |-> OrElse(meterUnit, Str(<<>>)),
          quantity |-> ParseFloat(Cell(row, 9)),
          unitPrice |-> ParseFloat(Cell(row, 10)),
          personName |-> Cell(row, 12) ]

\* The Contractor stored under one key of contractorsMap: created by the
\* first row of that name (its notes), extended by every row of that name.
contractorOfKey(grp, name) ==
    LET mine == SelectSeq(grp, LAMBDA r : ToStr(Cell(r, 4)) = name)
    IN  [ id |-> <<"c", "o", "n", "t", "r", "a", "c", "t", "o", "r", "-">> \o name,
          contractorName |-> Cell(mine[1], 4),
          notes |-> OrElse(Cell(mine[1], 13), Str(<<>>)),
          deductions |-> [i \in 1..Len(mine) |-> deductionOfRow(mine[i])] ]

\* The property names every object literal inherits from Object.prototype.
ObjectPrototypeNames ==
    { <<"c", "o", "n", "s", "t", "r", "u", "c", "t", "o", "r">>,
      <<"_", "_", "p", "r", "o", "t", "o", "_", "_">>,
      <<"t", "o", "S", "t", "r", "i", "n", "g">>,
      <<"t", "o", "L", "o", "c", "a", "l", "e", "S", "t", "r", "i", "n", "g">>,
      <<"v", "a", "l", "u", "e", "O", "f">>,
      <<"h", "a", "s", "O", "w", "n", "P", "r", "o", "p", "e", "r", "t", "y">>,
      <<"i", "s", "P", "r", "o", "t", "o", "t", "y", "p", "e", "O", "f">>,
      <<"p", "r", "o", "p", "e", "r", "t", "y", "I", "s", "E", "n", "u", "m", "e", "r", "a", "b", "l", "e">>,
      <<"_", "_", "d", "e", "f", "i", "n", "e", "G", "e", "t", "t", "e", "r", "_", "_">>,
      <<"_", "_", "d", "e", "f", "i", "n", "e", "S", "e", "t", "t", "e", "r", "_", "_">>,
      <<"_", "_", "l", "o", "o", "k", "u", "p", "G", "e", "t", "t", "e", "r", "_", "_">>,
      <<"_", "_", "l", "o", "o", "k", "u", "p", "S", "e", "t", "t", "e", "r", "_", "_">> }

\* contractorsMap[contractorName] of a fresh {} is truthy for an inherited
\* name: no Contractor is stored under it, and the push to the deductions
\* of the inherited value throws a TypeError.
pushThrows(row) == ToStr(Cell(row, 4)) \in ObjectPrototypeNames

\* Object.values(contractorsMap)
contractorsOfGroup(grp) ==
    LET ks == OwnKeys([i \in 1..Len(grp) |-> ToStr(Cell(grp[i], 4))])
    IN  [i \in 1..Len(ks) |-> contractorOfKey(grp, ks[i])]

\* subTotal + Number(d.quantity) * Number(d.unitPrice), over ds from index i
RECURSIVE deductionsTotal(_, _, _)
deductionsTotal(ds, i, subTotal) ==
    IF i > Len(ds) THEN subTotal
    ELSE deductionsTotal(ds, i + 1,
             Add(subTotal, Mul(ToNumber(ds[i].quantity), ToNumber(ds[i].unitPrice))))

\* total + (sum of the contractor's deductions), over cs from index i
RECURSIVE contractorsTotal(_, _, _)
contractorsTotal(cs, i, total) ==
    IF i > Len(cs) THEN total
    ELSE contractorsTotal(cs, i + 1,
             Add(total, deductionsTotal(cs[i].deductions, 1, Num(0))))

\* submissionOfGroup with the header taken from the last row of the group.
submissionOfGroup_LastRow(key, grp) ==
    LET firstRow == grp[Len(grp)]
        contractors == contractorsOfGroup(grp)
    IN  [ reportId |-> ReportPrefix \o ReplaceSpaceColon(key),
          timestamp |-> key,
          userEmail |-> Cell(firstRow, 2),
          status |-> OrElse(Cell(firstRow, 14), Str(PENDING)),
          company |-> Cell(firstRow, 3),
          contractors |-> contractors,
          grandTotal |-> contractorsTotal(contractors, 1, Num(0)) ]

\* The Submission built from one entry of groupedByTimestamp.
submissionOfGroup(key, grp) ==
    LET firstRow == grp[1]
        contractors == contractorsOfGroup(grp)
    IN  [ reportId |-> ReportPrefix \o ReplaceSpaceColon(key),
          timestamp |-> key,
          userEmail |-> Cell(firstRow, 2),
          status |-> OrElse(Cell(firstRow, 14), Str(PENDING)),
          company |-> Cell(firstRow, 3),
          contractors |-> contractors,
          grandTotal |-> contractorsTotal(contractors, 1, Num(0)) ]

\* The comparator of the final sort: positive when a goes after b.
compareSubmissions(a, b) ==
    IF StrLess(a.timestamp, b.timestamp) THEN 1
    ELSE IF StrLess(b.timestamp, a.timestamp) THEN -1
    ELSE 0

\* x put into the sorted sequence s, after the elements it does not precede.
RECURSIVE InsertSorted(_, _)
InsertSorted(s, x) ==
    IF s = <<>> THEN <<x>>
    ELSE IF compareSubmissions(s[Len(s)], x) <= 0 THEN Append(s, x)
    ELSE Append(InsertSorted(Take(s, Len(s) - 1), x), s[Len(s)])

\* sortSubmissions left out: the submissions in the order of their keys.
sortSubmissions_Unsorted(s) == s

\* Array.prototype.sort with compareSubmissions (a stable sort).
RECURSIVE sortSubmissions(_)
sortSubmissions(s) ==
    IF s = <<>> THEN <<>>
    ELSE InsertSorted(sortSubmissions(Take(s, Len(s) - 1)), s[Len(s)])

\* A row of rs makes the reconstruction throw.
parseThrows(rs) == \E i \in 1..Len(rs) : pushThrows(rs[i])

\* The list returned for rows none of which makes the reconstruction throw.
parseSubmissionsFromRows(rs) ==
    LET keys == OwnKeys([i \in 1..Len(rs) |-> timestampKey(rs[i])])
        submissions ==
            [i \in 1..Len(keys) |->
                submissionOfGroup(keys[i], groupedByTimestamp(rs, keys[i]))]
    IN  sortSubmissions(submissions)

---------------------------------------------------------------------------
(* Rows found in a submissions table                                       *)

\* values.get returns each row without its trailing empty cells.
RECURSIVE TrimRow(_)
TrimRow(row) ==
    IF row # <<>> /\ row[Len(row)] = <<>> THEN TrimRow(Take(row, Len(row) - 1))
    ELSE row

\* Longest list of rows handed to parseSubmissionsFromRows.
MaxRows == 3

Date1 == <<"2", "0", "2", "4", "-", "0", "6", "-", "0", "1">>

Date2 == <<"2", "0", "2", "4", "-", "0", "5", "-", "0", "1">>

Time1 == <<"1", "0", ":", "0", "0">>

Time2 == <<"0", "9", ":", "0", "0">>

\* A time cell that carries seconds.
Time1s == <<"1", "0", ":", "0", "0", ":", "0", "5">>

User1 == <<"u", "1", "@", "x">>

User2 == <<"u", "2", "@", "x">>

Admin1 == <<"a", "d", "@", "x">>

DMC == <<"D", "M", "C">>

CURVE == <<"C", "U", "R", "V", "E">>

Company == {DMC, CURVE}

\* (date, time) pairs of ordinary rows.
RowKeys == {<<Date1, Time1>>, <<Date1, Time2>>, <<Date2, Time2>>}

RowNames == {<<"A", "l", "i">>, <<"B", "a", "d", "r">>}

\* Cells 2..3 and 5..14 of a row: what a row holds besides its key and its
\* contractor name.
RowVariants ==
    { [ user |-> User1, company |-> DMC, contract |-> <<"k", "1">>,
        item |-> <<"i", "1">>, work |-> <<"w", "1">>,
        meter |-> <<"1", "2", ".", "5">> \o <<" ">> \o meterUnits[2],
        quantity |-> <<"2">>, price |-> <<"3">>, total |-> <<"6">>,
        person |-> <<>>, notes |-> <<"n", "1">>, status |-> PENDING ],
      [ user |-> User2, company |-> CURVE, contract |-> <<"k", "2">>,
        item |-> <<"i", "2">>, work |-> <<"w", "2">>,
        meter |-> <<>>,
        quantity |-> <<"a", "b", "c">>, price |-> <<"1", ".", "5">>, total |-> <<>>,
        person |-> <<"p">>, notes |-> <<"n", "2">>, status |-> <<>> ],
      [ user |-> User1, company |-> DMC, contract |-> <<"k", "1">>,
        item |-> <<"i", "3">>, work |-> <<"w", "3">>,
        meter |-> <<"7">> \o <<" ">> \o meterUnits[3],
        quantity |-> <<"4">>, price |-> <<"0", ".", "5">>, total |-> <<"2">>,
        person |-> <<>>, notes |-> <<>>, status |-> APPROVED ] }

MkRow(date, time, name, v) ==
    TrimRow(<< date, time, v.user, v.company, name, v.contract, v.item, v.work,
               v.meter, v.quantity, v.price, v.total, v.person, v.notes,
               v.status >>)

BaseVariant == CHOOSE v \in RowVariants : v.status = PENDING

\* A row with an empty quantity cell, a meter cell without unit and nothing
\* after its price cell.
ShortVariant ==
    [ user |-> User2, company |-> DMC, contract |-> <<"k", "2">>,
      item |-> <<"i", "4">>, work |-> <<"w", "4">>,
      meter |-> <<"x">>,
      quantity |-> <<>>, price |-> <<"2">>, total |-> <<>>,
      person |-> <<>>, notes |-> <<>>, status |-> <<>> ]

\* Rows whose cells are not of the submitted form: a date or time cell with
\* a space in it, a contractor name that is a number or a property name of
\* Object.prototype, a row cut after its price cell or after its time cell.
OddRows ==
    { MkRow(Date1, Time1 \o <<" ", "A", "M">>, <<"A", "l", "i">>, BaseVariant),
      MkRow(Date1 \o <<" ">> \o Time1, <<"A", "M">>, <<"A", "l", "i">>, BaseVariant),
      MkRow(Date1, Time1, <<"7">>, BaseVariant),
      MkRow(Date1, Time1, <<"1", "0">>, BaseVariant),
      MkRow(Date1, Time1, <<"c", "o", "n", "s", "t", "r", "u", "c", "t", "o", "r">>, BaseVariant),
      MkRow(Date1, Time1, <<"A", "l", "i">>, ShortVariant),
      <<Date1, Time1>> }

RowSet ==
    { MkRow(k[1], k[2], n, v) : k \in RowKeys, n \in RowNames, v \in RowVariants }
        \cup OddRows

RowLists == UNION { [1..n -> RowSet] : n \in 0..MaxRows }

---------------------------------------------------------------------------
(* A direct call of parseSubmissionsFromRows on any list of rows           *)

InitParse ==
    /\ rows \in RowLists
    /\ parsed = <<>>
    /\ pc = "input"
    /\ users = <<>>
    /\ auth = LoggedOut
    /\ form = FormAtRest
    /\ dash = DashAtRest
    /\ configured = TRUE
    /\ header = [c \in Company |-> "absent"]
    /\ sheet = [c \in Company |-> <<>>]
    /\ mockSubmissions = <<>>
    /\ clock = 0
    /\ upd = NoCall
    /\ last = NoCall

ParseRows ==
    /\ pc = "input"
    /\ IF parseThrows(rows)
       THEN parsed' = <<>> /\ pc' = "threw"
       ELSE parsed' = parseSubmissionsFromRows(rows) /\ pc' = "parsed"
    /\ UNCHANGED <<rows, storeVars, clientVars>>

NextParse == ParseRows

SpecParse == InitParse /\ [][NextParse]_vars

---------------------------------------------------------------------------
(* The clock                                                               *)

\* The instants at which the server is observed: 10:00:00 and 10:01:00 of
\* the first day, 09:00:00 of the second.
Instants == {36000, 36060, 118800}

Pad2(n) == IF n < 10 THEN <<"0">> \o Digits(n) ELSE Digits(n)

\* now.toLocaleDateString('en-CA') of the Cairo wall clock: YYYY-MM-DD
cairoDate(t) == <<"2", "0", "2", "4", "-", "0", "6", "-">> \o Pad2(1 + (t \div 86400))

\* now.toLocaleTimeString('en-GB', 2-digit hour and minute): HH:MM
cairoTime(t) == Pad2((t % 86400) \div 3600) \o <<":">> \o Pad2((t % 3600) \div 60)

\* new Date().toISOString(): the UTC instant, three hours behind Cairo
\* summer time.
isoString(t) ==
    LET u == t - 10800
    IN  <<"2", "0", "2", "4", "-", "0", "6", "-">> \o Pad2(1 + (u \div 86400))
            \o <<"T">> \o Pad2((u % 86400) \div 3600)
            \o <<":">> \o Pad2((u % 3600) \div 60)
            \o <<":">> \o Pad2(u % 60) \o <<".", "0", "0", "0", "Z">>

\* new Date(timestamp).getTime() of an ISO string, in seconds.
isoTime(s) ==
    86400 * (DigitsValue(SubSeq(s, 9, 10)) - 1) + 3600 * DigitsValue(SubSeq(s, 12, 13))
        + 60 * DigitsValue(SubSeq(s, 15, 16)) + DigitsValue(SubSeq(s, 18, 19))

---------------------------------------------------------------------------
(* The submissions tables                                                  *)

\* A row of the grid: its cells up to column R, empty where nothing was
\* written.
RECURSIVE GridRow(_)
GridRow(row) == IF Len(row) >= 18 THEN row ELSE GridRow(Append(row, <<>>))

\* values.get on `${company} REQUEST!A2:Z`: every data row, each without its
\* trailing empty cells.
ReadRows(c) == [i \in 1..Len(sheet[c]) |-> TrimRow(sheet[c][i])]

\* ensureSheetAndHeaders on a REQUEST sheet: an absent sheet is created with
\* the headers, incomplete headers are overwritten.
ensureSheetAndHeaders(h, c) == [h EXCEPT ![c] = "current"]

---------------------------------------------------------------------------
(* submitDeductions                                                        *)

\* Number(x) without the fallback to 0.
NumberOrZero_NoFallback(x) == ToNumber(x)

\* Number(x) || 0
NumberOrZero(x) == OrElse(ToNumber(x), Num(0))

\* The row emitted for one deduction of one contractor; the sheet shows the
\* numbers written to it as text.
rowOfDeduction(payload, contractor, deduction, date, time) ==
    LET meterEquivalent ==
            IF Truthy(deduction.meterEquivalentValue)
            THEN ToStr(deduction.meterEquivalentValue) \o <<" ">>
                     \o ToStr(deduction.meterEquivalentUnit)
            ELSE <<>>
        quantity == NumberOrZero(deduction.quantity)
        unitPrice == NumberOrZero(deduction.unitPrice)
        total == Mul(quantity, unitPrice)
    IN  << date,
           time,
           payload.userEmail,
           payload.company,
           ToStr(contractor.contractorName),
           ToStr(OrElse(deduction.contractName, Str(<<>>))),
           ToStr(OrElse(deduction.itemName, Str(<<>>))),
           ToStr(OrElse(deduction.workDescription, Str(<<>>))),
           meterEquivalent,
           ToStr(quantity),
           ToStr(unitPrice),
           ToStr(total),
           ToStr(OrElse(deduction.personName, Str(<<>>))),
           ToStr(OrElse(contractor.notes, Str(<<>>))),
           PENDING >>

\* The rows when the clock is read again for each contractor, a minute
\* having passed.
RECURSIVE rowsToAppend_ClockPerContractor(_, _, _, _)
rowsToAppend_ClockPerContractor(payload, cs, date, time) ==
    IF cs = <<>> THEN <<>>
    ELSE [i \in 1..Len(cs[1].deductions) |->
             rowOfDeduction(payload, cs[1], cs[1].deductions[i], date, time)]
         \o rowsToAppend_ClockPerContractor(payload, Tail(cs), date, cairoTime(clock + 60))

\* payload.contractors.flatMap(contractor => contractor.deductions.map(...))
RECURSIVE rowsToAppend(_, _, _, _)
rowsToAppend(payload, cs, date, time) ==
    IF cs = <<>> THEN <<>>
    ELSE [i \in 1..Len(cs[1].deductions) |->
             rowOfDeduction(payload, cs[1], cs[1].deductions[i], date, time)]
         \o rowsToAppend(payload, Tail(cs), date, time)

\* deductionTotal + (Number(quantity) || 0) * (Number(unitPrice) || 0)
RECURSIVE payloadDeductionsTotal(_, _, _)
payloadDeductionsTotal(ds, i, deductionTotal) ==
    IF i > Len(ds) THEN deductionTotal
    ELSE payloadDeductionsTotal(ds, i + 1,
             Add(deductionTotal,
                 Mul(NumberOrZero(ds[i].quantity), NumberOrZero(ds[i].unitPrice))))

\* The grandTotal of the copy kept in mockSubmissions.
RECURSIVE payloadGrandTotal(_, _, _)
payloadGrandTotal(cs, i, total) ==
    IF i > Len(cs) THEN total
    ELSE payloadGrandTotal(cs, i + 1,
             Add(total, payloadDeductionsTotal(cs[i].deductions, 1, Num(0))))

\* randomUUID(): a value no earlier call returned.
freshUUID == <<"u", "u", "i", "d", "-">> \o Digits(Len(mockSubmissions) + 1)

\* ensureSheetAndHeaders that fails at its write of the header row: an
\* absent sheet has been added and is left without headers.
ensureFailsAtHeaders(h, c) == [h EXCEPT ![c] = IF @ = "absent" THEN "stale" ELSE @]

\* The store calls of submitDeductions that can fail: the reads of
\* ensureSheetAndHeaders, its write of the header row when it makes one, and
\* the append. Without a store no call is made.
SubmitFailures(company) ==
    IF ~configured THEN {"none"}
    ELSE {"none", "ensure", "append"}
             \cup (IF header[company] # "current" THEN {"headers"} ELSE {})

\* An append that keeps the first row of a batch it fails on.
valuesAppend_Partial(table, values, ok) ==
    IF ok THEN table \o [i \in 1..Len(values) |-> GridRow(values[i])]
    ELSE table \o <<GridRow(values[1])>>

\* values.append of all rows in one call: the table with the rows after its
\* last row, or the table as it was when the call fails.
valuesAppend(table, values, ok) ==
    IF ok THEN table \o [i \in 1..Len(values) |-> GridRow(values[i])] ELSE table

\* The whole handler: the copy pushed to mockSubmissions, then, when the
\* store is configured, the header bootstrap and the one append of all rows;
\* fail names the store call that fails, if any, and the handler then throws.
submitDeductions(payload, fail) ==
    LET newSubmission ==
            [ reportId |-> freshUUID,
              timestamp |-> isoString(clock),
              userEmail |-> Str(payload.userEmail),
              status |-> Str(PENDING),
              company |-> Str(payload.company),
              contractors |-> payload.contractors,
              grandTotal |-> payloadGrandTotal(payload.contractors, 1, Num(0)) ]
        appended ==
            rowsToAppend(payload, payload.contractors, cairoDate(clock), cairoTime(clock))
        failed ==
            [ op |-> "submitDeductions", success |-> FALSE, threw |-> TRUE,
              message |-> "send failed", storeFailed |-> TRUE, failedAt |-> fail,
              payload |-> payload ]
    IN  /\ mockSubmissions' = Append(mockSubmissions, newSubmission)
        /\ IF ~configured
           THEN /\ last' = [ op |-> "submitDeductions", success |-> TRUE, threw |-> FALSE,
                             message |-> "saved locally", storeFailed |-> FALSE,
                             failedAt |-> "none", payload |-> payload ]
                /\ UNCHANGED <<header, sheet>>
           ELSE IF fail = "ensure"
           THEN /\ last' = failed
                /\ UNCHANGED <<header, sheet>>
           ELSE IF fail = "headers"
           THEN /\ last' = failed
                /\ header' = ensureFailsAtHeaders(header, payload.company)
                /\ UNCHANGED sheet
           ELSE IF fail = "append"
           THEN /\ last' = failed
                /\ header' = ensureSheetAndHeaders(header, payload.company)
                /\ sheet' = [sheet EXCEPT ![payload.company] = valuesAppend(@, appended, FALSE)]
           ELSE /\ header' = ensureSheetAndHeaders(header, payload.company)
                /\ sheet' = [sheet EXCEPT ![payload.company] = valuesAppend(@, appended, TRUE)]
                /\ last' = [ op |-> "submitDeductions", success |-> TRUE, threw |-> FALSE,
                             message |-> "sent", storeFailed |-> FALSE, failedAt |-> "none",
                             payload |-> payload ]
        /\ parsed' = <<>>
        /\ UNCHANGED <<configured, clock, upd, rows, pc, clientVars>>

---------------------------------------------------------------------------
(* getAllSubmissions                                                       *)

\* b goes before a: new Date(b.timestamp).getTime() - new Date(a.timestamp).getTime() < 0
RECURSIVE InsertByTime(_, _)
InsertByTime(s, x) ==
    IF s = <<>> THEN <<x>>
    ELSE IF isoTime(x.timestamp) - isoTime(s[Len(s)].timestamp) <= 0 THEN Append(s, x)
    ELSE Append(InsertByTime(Take(s, Len(s) - 1), x), s[Len(s)])

\* mockSubmissions.sort(...), newest first (a stable sort, in place).
RECURSIVE sortByTime(_)
sortByTime(s) ==
    IF s = <<>> THEN <<>>
    ELSE InsertByTime(sortByTime(Take(s, Len(s) - 1)), s[Len(s)])

\* JSON.parse(JSON.stringify(v)) of a value: a number that is NaN becomes
\* null, strings and other numbers are kept.
jsonValue(v) == IF v.t = "NaN" THEN Null ELSE v

\* JSON.parse(JSON.stringify(list)) of a list of submissions.
jsonCopy(list) ==
    [i \in 1..Len(list) |->
        [list[i] EXCEPT
            !.grandTotal = jsonValue(@),
            !.contractors =
                [c \in 1..Len(@) |->
                    [@[c] EXCEPT !.deductions =
                        [d \in 1..Len(@) |->
                            [@[d] EXCEPT !.quantity = jsonValue(@),
                                         !.unitPrice = jsonValue(@),
                                         !.meterEquivalentValue = jsonValue(@)]]]]]]

\* The store calls made for one company's sheet by the two readers: the
\* reads of ensureSheetAndHeaders, its write of the header row when it makes
\* one, and the values.get of the data rows.
ReadFailures(company) ==
    IF ~configured THEN {"none"}
    ELSE {"none", "ensure", "read"}
             \cup (IF header[company] # "current" THEN {"headers"} ELSE {})

\* The header rows after ensureSheetAndHeaders for one company, fail naming
\* the store call that fails, if any.
ensureOutcome(h, c, fail) ==
    IF fail = "ensure" THEN h
    ELSE IF fail = "headers" THEN ensureFailsAtHeaders(h, c)
    ELSE ensureSheetAndHeaders(h, c)

\* The rows one company contributes: none when a store call for its sheet
\* fails (the inner catch logs and goes on to the next company).
companyRows(c, fail) == IF fail = "none" THEN ReadRows(c) ELSE <<>>

\* The whole handler: without a store the in-process list, sorted in place;
\* with a store the rows of the DMC table followed by those of the CURVE
\* table, reconstructed; an error of the reconstruction is thrown on.
getAllSubmissions(failDMC, failCURVE) ==
    LET allRows == companyRows(DMC, failDMC) \o companyRows(CURVE, failCURVE)
    IN  /\ IF ~configured
           THEN /\ mockSubmissions' = sortByTime(mockSubmissions)
                /\ parsed' = jsonCopy(sortByTime(mockSubmissions))
                /\ UNCHANGED header
           ELSE /\ header' = ensureOutcome(ensureOutcome(header, DMC, failDMC), CURVE, failCURVE)
                /\ parsed' = IF parseThrows(allRows) THEN <<>>
                             ELSE parseSubmissionsFromRows(allRows)
                /\ UNCHANGED mockSubmissions
        /\ last' = IF configured /\ parseThrows(allRows)
                   THEN [op |-> "getAllSubmissions", success |-> FALSE, threw |-> TRUE,
                         message |-> "fetch failed",
                         storeFailed |-> (failDMC # "none" \/ failCURVE # "none")]
                   ELSE [op |-> "getAllSubmissions", success |-> TRUE, threw |-> FALSE,
                         message |-> "returned",
                         storeFailed |-> (failDMC # "none" \/ failCURVE # "none")]
        /\ UNCHANGED <<configured, sheet, clock, upd, rows, pc, clientVars>>

---------------------------------------------------------------------------
(* getSubmissionHistory                                                    *)

\* /^\d{4}-\d{2}-\d{2}$/.test(s)
IsDateString(s) ==
    /\ Len(s) = 10
    /\ \A i \in {1, 2, 3, 4, 6, 7, 9, 10} : IsDigit(s[i])
    /\ s[5] = "-"
    /\ s[8] = "-"

\* startOfDay(new Date(date)).getTime(), in seconds, on a server whose local
\* time is UTC.
startOfDay(date) == 86400 * (DigitsValue(SubSeq(date, 9, 10)) - 1)

\* endOfDay(new Date(date)).getTime(), in whole seconds.
endOfDay(date) == startOfDay(date) + 86399

\* The history without a store when the list is not filtered by user.
localHistory_AllUsers(userEmail, startDate, endDate) == jsonCopy(sortByTime(mockSubmissions))

\* The history without a store: the in-process submissions of the user,
\* newest first, within the days of the range when both dates are given.
localHistory(userEmail, startDate, endDate) ==
    LET mine == SelectSeq(mockSubmissions, LAMBDA sub : sub.userEmail = Str(userEmail))
    IN  IF Truthy(startDate) /\ Truthy(endDate)
        THEN sortByTime(SelectSeq(mine,
                 LAMBDA sub : /\ isoTime(sub.timestamp) >= startOfDay(startDate.s)
                              /\ isoTime(sub.timestamp) <= endOfDay(endDate.s)))
        ELSE jsonCopy(sortByTime(mine))

\* The filter without its test of the submitter cell.
filteredRows_AnySubmitter(allRows, userEmail, startDate, endDate) ==
    IF Truthy(startDate) /\ Truthy(endDate)
    THEN SelectSeq(allRows,
             LAMBDA row : /\ Cell(row, 0).t = "string"
                          /\ IsDateString(Cell(row, 0).s)
                          /\ ~StrLess(Cell(row, 0).s, startDate.s)
                          /\ ~StrLess(endDate.s, Cell(row, 0).s))
    ELSE allRows

\* The rows of the user, and within the range when both dates are given.
filteredRows(allRows, userEmail, startDate, endDate) ==
    LET allUserRows == SelectSeq(allRows, LAMBDA row : Cell(row, 2) = Str(userEmail))
    IN  IF Truthy(startDate) /\ Truthy(endDate)
        THEN SelectSeq(allUserRows,
                 LAMBDA row : /\ Cell(row, 0).t = "string"
                              /\ IsDateString(Cell(row, 0).s)
                              /\ ~StrLess(Cell(row, 0).s, startDate.s)
                              /\ ~StrLess(endDate.s, Cell(row, 0).s))
        ELSE allUserRows

\* The whole handler; startDate and endDate are strings or undefined.
getSubmissionHistory(userEmail, startDate, endDate, failDMC, failCURVE) ==
    LET allRows == companyRows(DMC, failDMC) \o companyRows(CURVE, failCURVE)
        kept == filteredRows(allRows, userEmail, startDate, endDate)
        threw == configured /\ parseThrows(kept)
    IN  /\ IF ~configured
           THEN /\ parsed' = localHistory(userEmail, startDate, endDate)
                /\ UNCHANGED header
           ELSE /\ header' = ensureOutcome(ensureOutcome(header, DMC, failDMC), CURVE, failCURVE)
                /\ parsed' = IF threw THEN <<>> ELSE parseSubmissionsFromRows(kept)
        /\ last' = [ op |-> "getSubmissionHistory", userEmail |-> userEmail,
                     startDate |-> startDate, endDate |-> endDate,
                     success |-> ~threw, threw |-> threw,
                     message |-> IF threw THEN "fetch failed" ELSE "returned",
                     storeFailed |-> (failDMC # "none" \/ failCURVE # "none") ]
        /\ UNCHANGED <<configured, sheet, mockSubmissions, clock, upd, rows, pc, clientVars>>

---------------------------------------------------------------------------
(* updateReportStatus                                                      *)

\* `report-${row[0]}-${row[1]}`.replace(/\s|:/g, '-')
comparableRowId(row) ==
    ReplaceSpaceColon(ReportPrefix \o ToStr(Cell(row, 0)) \o <<"-">> \o ToStr(Cell(row, 1)))

\* rowIndicesToUpdate with the first match only (a find instead of a forEach).
rowIndicesToUpdate_FirstOnly(rs, reportId) ==
    LET all == SelectSeq([i \in 1..Len(rs) |-> i + 1],
                         LAMBDA n : StartsWith(comparableRowId(rs[n - 1]), reportId))
    IN  IF all = <<>> THEN <<>> ELSE <<all[1]>>

\* The sheet row numbers (index + 2) of the rows whose id starts with
\* reportId, in row order.
rowIndicesToUpdate(rs, reportId) ==
    SelectSeq([i \in 1..Len(rs) |-> i + 1],
              LAMBDA n : StartsWith(comparableRowId(rs[n - 1]), reportId))

\* The result record of a call of updateReportStatus.
updateResult(reportId, company, success, threw, message) ==
    [ op |-> "updateReportStatus", reportId |-> reportId, company |-> company,
      success |-> success, threw |-> threw, message |-> message ]

\* The handler without a store when it sets the status of every in-process
\* submission.
updateMockStatus_AllEntries(reportId, company, newStatus) ==
    LET found == {i \in 1..Len(mockSubmissions) : mockSubmissions[i].reportId = reportId}
    IN  /\ IF found # {}
           THEN /\ mockSubmissions' =
                       [i \in 1..Len(mockSubmissions) |->
                           [mockSubmissions[i] EXCEPT !.status = Str(newStatus)]]
                /\ last' = updateResult(reportId, company, TRUE, FALSE, "updated locally")
           ELSE /\ last' = updateResult(reportId, company, FALSE, FALSE, "not configured")
                /\ UNCHANGED mockSubmissions
        /\ UNCHANGED <<header, sheet, upd>>

\* The handler without a store: the status of the first in-process
\* submission of that reportId.
updateMockStatus(reportId, company, newStatus) ==
    LET found == {i \in 1..Len(mockSubmissions) : mockSubmissions[i].reportId = reportId}
        mockIndex == CHOOSE i \in found : \A j \in found : i <= j
    IN  /\ IF found # {}
           THEN /\ mockSubmissions' =
                       [mockSubmissions EXCEPT ![mockIndex].status = Str(newStatus)]
                /\ last' = updateResult(reportId, company, TRUE, FALSE, "updated locally")
           ELSE /\ last' = updateResult(reportId, company, FALSE, FALSE, "not configured")
                /\ UNCHANGED mockSubmissions
        /\ UNCHANGED <<header, sheet, upd>>

\* updateReadRows without the test for an empty rowIndicesToUpdate.
updateReadRows_NoEmptyTest(reportId, company, newStatus, adminEmail) ==
    LET rs == ReadRows(company)
        requests ==
            [i \in 1..Len(rowIndicesToUpdate(rs, reportId)) |->
                [ rowIndex |-> rowIndicesToUpdate(rs, reportId)[i],
                  values |-> <<newStatus, cairoDate(clock), cairoTime(clock), adminEmail>> ]]
    IN  /\ upd' = [ op |-> "updateReportStatus", reportId |-> reportId,
                    company |-> company, newStatus |-> newStatus,
                    adminEmail |-> adminEmail, requests |-> requests,
                    rowsRead |-> Len(rs) ]
        /\ UNCHANGED <<header, sheet, mockSubmissions, last>>

\* The handler with a store, up to its batchUpdate request: the rows are
\* read and matched; the call throws when the sheet cannot be read, has no
\* data row or has no matching row.
updateReadRows(reportId, company, newStatus, adminEmail) ==
    LET rs == ReadRows(company)
        indices == rowIndicesToUpdate(rs, reportId)
        requests ==
            [i \in 1..Len(indices) |->
                [ rowIndex |-> indices[i],
                  values |-> <<newStatus, cairoDate(clock), cairoTime(clock), adminEmail>> ]]
    IN  /\ IF header[company] = "absent"
           THEN /\ last' = updateResult(reportId, company, FALSE, TRUE, "range not found")
                /\ UNCHANGED upd
           ELSE IF rs = <<>>
           THEN /\ last' = updateResult(reportId, company, FALSE, TRUE, "no data found")
                /\ UNCHANGED upd
           ELSE IF indices = <<>>
           THEN /\ last' = updateResult(reportId, company, FALSE, TRUE, "report not found")
                /\ UNCHANGED upd
           ELSE /\ upd' = [ op |-> "updateReportStatus", reportId |-> reportId,
                            company |-> company, newStatus |-> newStatus,
                            adminEmail |-> adminEmail, requests |-> requests,
                            rowsRead |-> Len(rs) ]
                /\ UNCHANGED last
        /\ UNCHANGED <<header, sheet, mockSubmissions>>

\* The call of updateReportStatus, up to the point where it waits for the
\* store to apply its batch; when the read of the rows fails (storeOk false)
\* the call throws.
updateReportStatus(reportId, company, newStatus, adminEmail, storeOk) ==
    /\ upd = NoCall
    /\ IF ~configured THEN updateMockStatus(reportId, company, newStatus)
       ELSE IF ~storeOk
       THEN /\ last' = updateResult(reportId, company, FALSE, TRUE, "update failed")
            /\ UNCHANGED <<header, sheet, mockSubmissions, upd>>
       ELSE updateReadRows(reportId, company, newStatus, adminEmail)
    /\ parsed' = <<>>
    /\ UNCHANGED <<configured, clock, rows, pc, sessionVars>>

\* A table with the cells O..R of the requested rows overwritten.
RECURSIVE applyRequests(_, _)
applyRequests(table, requests) ==
    IF requests = <<>> THEN table
    ELSE LET r == requests[1]
             row == table[r.rowIndex - 1]
         IN  applyRequests([table EXCEPT ![r.rowIndex - 1] = Take(row, 14) \o r.values],
                           Tail(requests))

\* A batch write that also empties the notes cell of the rows it writes.
batchUpdate_ClearsNotes(table, requests) ==
    [i \in 1..Len(table) |->
        IF \E k \in 1..Len(requests) : requests[k].rowIndex = i + 1
        THEN [applyRequests(table, requests)[i] EXCEPT ![14] = <<>>]
        ELSE table[i]]

\* A batch write whose status cell is a fourth literal.
batchUpdate_OtherStatus(table, requests) ==
    [i \in 1..Len(table) |->
        IF \E k \in 1..Len(requests) : requests[k].rowIndex = i + 1
        THEN [applyRequests(table, requests)[i] EXCEPT ![15] = <<"d", "o", "n", "e">>]
        ELSE table[i]]

\* A batch write that matches the rows again when it is applied: every row
\* with the date and time cells of a requested row is written.
batchUpdate_MatchAtWrite(table, requests) ==
    [i \in 1..Len(table) |->
        IF \E k \in 1..Len(requests) :
              Take(table[i], 2) = Take(table[requests[k].rowIndex - 1], 2)
        THEN Take(table[i], 14) \o requests[1].values
        ELSE table[i]]

\* values.batchUpdate: all ranges of the request are written in one call.
batchUpdate(table, requests) == applyRequests(table, requests)

\* The store applies the batch and the call returns success, or the store
\* refuses the batch (storeOk false) and the call throws.
updateReportStatusDone(storeOk) ==
    /\ upd # NoCall
    /\ IF storeOk
       THEN /\ sheet' = [sheet EXCEPT ![upd.company] = batchUpdate(@, upd.requests)]
            /\ last' = updateResult(upd.reportId, upd.company, TRUE, FALSE, "updated")
       ELSE /\ UNCHANGED sheet
            /\ last' = updateResult(upd.reportId, upd.company, FALSE, TRUE, "update failed")
    /\ upd' = NoCall
    /\ parsed' = <<>>
    /\ UNCHANGED <<configured, header, mockSubmissions, clock, rows, pc, sessionVars>>

---------------------------------------------------------------------------
(* Time passes                                                             *)

Tick ==
    /\ \E t \in Instants : t > clock /\ clock' = t
    /\ UNCHANGED <<configured, header, sheet, mockSubmissions, upd, last, rows, parsed, pc, clientVars>>

---------------------------------------------------------------------------
(* Users: getUserRoleByEmail, validateUser and the login form              *)

RoleUser == <<"u", "s", "e", "r">>

RoleAdmin == <<"a", "d", "m", "i", "n">>

\* The two logins accepted without a store.
MockAdminEmail == <<"a", "d", "m", "i", "n", "@", "t", "e", "s", "t", ".", "c", "o", "m">>

MockUserEmail == <<"u", "s", "e", "r", "@", "t", "e", "s", "t", ".", "c", "o", "m">>

MockPassword == <<"1", "2", "3">>

\* values.get on Users!A2:C: every data row without its trailing empty
\* cells.
ReadUsers == [i \in 1..Len(users) |-> TrimRow(users[i])]

\* (row[0] || '').trim().toLowerCase()
sheetEmail(row) == ToLowerCase(Trim(ToStr(OrElse(Cell(row, 0), Str(<<>>)))))

\* (row[1] || '').trim()
sheetPassword(row) == Trim(ToStr(OrElse(Cell(row, 1), Str(<<>>))))

\* (row[2] || 'user').trim().toLowerCase()
sheetRole(row) == ToLowerCase(Trim(ToStr(OrElse(Cell(row, 2), Str(RoleUser)))))

\* The index of the first TRUE of a sequence of truth values, or 0 (the
\* for loop that returns at its first hit).
FirstHit(hits) ==
    IF \E i \in 1..Len(hits) : hits[i]
    THEN CHOOSE i \in 1..Len(hits) : hits[i] /\ \A j \in 1..(i - 1) : ~hits[j]
    ELSE 0

\* What getUserRoleByEmail returns; storeOk tells whether the calls of the
\* store succeed (an error of the store is caught and gives null).
roleByEmail(email, storeOk) ==
    IF email = <<>> THEN Null
    ELSE IF ~configured
    THEN IF Trim(ToLowerCase(email)) = MockAdminEmail THEN Str(RoleAdmin)
         ELSE IF Trim(ToLowerCase(email)) = MockUserEmail THEN Str(RoleUser)
         ELSE Null
    ELSE IF ~storeOk THEN Null
    ELSE LET rs == ReadUsers
             hit == FirstHit([i \in 1..Len(rs) |->
                                 sheetEmail(rs[i]) = ToLowerCase(Trim(email))])
         IN  IF hit = 0 THEN Null
             ELSE IF sheetRole(rs[hit]) = RoleAdmin THEN Str(RoleAdmin)
             ELSE Str(RoleUser)

\* The whole handler getUserRoleByEmail.
getUserRoleByEmail(email, storeOk) ==
    /\ last' = [ op |-> "getUserRoleByEmail", email |-> email,
                 result |-> roleByEmail(email, storeOk),
                 storeFailed |-> (email # <<>> /\ configured /\ ~storeOk),
                 success |-> TRUE, threw |-> FALSE ]
    /\ UNCHANGED <<configured, header, sheet, mockSubmissions, clock, upd, rows, parsed, pc,
                   clientVars>>

\* validateUser without the test of the requested role against the stored
\* role: the stored role is returned.
validateUser_AnyRole(email, password_provided, expectedRole, storeOk) ==
    LET rejected == [isValid |-> FALSE, role |-> Null]
    IN  IF ~configured
        THEN IF /\ email = MockAdminEmail /\ password_provided = MockPassword
                /\ expectedRole = RoleAdmin
             THEN [isValid |-> TRUE, role |-> Str(RoleAdmin)]
             ELSE IF /\ email = MockUserEmail /\ password_provided = MockPassword
                     /\ expectedRole = RoleUser
             THEN [isValid |-> TRUE, role |-> Str(RoleUser)]
             ELSE rejected
        ELSE IF ~storeOk THEN rejected
        ELSE LET rs == ReadUsers
                 hit == FirstHit([i \in 1..Len(rs) |->
                                     /\ sheetEmail(rs[i]) = ToLowerCase(Trim(email))
                                     /\ sheetPassword(rs[i]) = Trim(password_provided)])
             IN  IF hit = 0 THEN rejected
                 ELSE [isValid |-> TRUE, role |-> Str(sheetRole(rs[hit]))]

\* What validateUser returns (an error of the store is caught and gives
\* the rejection).
validateUser(email, password_provided, expectedRole, storeOk) ==
    LET rejected == [isValid |-> FALSE, role |-> Null]
    IN  IF ~configured
        THEN IF /\ email = MockAdminEmail /\ password_provided = MockPassword
                /\ expectedRole = RoleAdmin
             THEN [isValid |-> TRUE, role |-> Str(RoleAdmin)]
             ELSE IF /\ email = MockUserEmail /\ password_provided = MockPassword
                     /\ expectedRole = RoleUser
             THEN [isValid |-> TRUE, role |-> Str(RoleUser)]
             ELSE rejected
        ELSE IF ~storeOk THEN rejected
        ELSE LET rs == ReadUsers
                 hit == FirstHit([i \in 1..Len(rs) |->
                                     /\ sheetEmail(rs[i]) = ToLowerCase(Trim(email))
                                     /\ sheetPassword(rs[i]) = Trim(password_provided)
                                     /\ sheetRole(rs[i]) = expectedRole])
             IN  IF hit = 0 THEN rejected
                 ELSE [isValid |-> TRUE, role |-> Str(sheetRole(rs[hit]))]

\* The login form: handleLogin(role, password) with the email typed into
\* the form; a valid result is stored by login(email, role).
handleLogin(email, role, password, storeOk) ==
    \E validationResult \in {validateUser(email, password, role, storeOk)} :
        /\ IF email = <<>>
           THEN /\ last' = [ op |-> "handleLogin", email |-> email, expectedRole |-> role,
                             password |-> password, called |-> FALSE,
                             storeFailed |-> FALSE, success |-> FALSE, threw |-> FALSE ]
                /\ UNCHANGED auth
           ELSE /\ last' = [ op |-> "handleLogin", email |-> email, expectedRole |-> role,
                             password |-> password, called |-> TRUE,
                             result |-> validationResult,
                             storeFailed |-> (configured /\ ~storeOk),
                             success |-> validationResult.isValid, threw |-> FALSE ]
                /\ auth' = IF validationResult.isValid
                           THEN [ email |-> Str(email), role |-> validationResult.role,
                                  isAuthenticated |-> TRUE ]
                           ELSE auth
        /\ UNCHANGED <<configured, header, sheet, mockSubmissions, clock, upd, rows, parsed,
                       pc, users, form, dash>>

\* logout() that forgets the email and the flag but keeps the role.
logout_KeepsRole ==
    /\ auth' = [auth EXCEPT !.email = Null, !.isAuthenticated = FALSE]
    /\ UNCHANGED <<configured, header, sheet, mockSubmissions, clock, upd, last, rows, parsed,
                   pc, users, form, dash>>

\* logout() of the session store.
logout ==
    /\ auth' = LoggedOut
    /\ UNCHANGED <<configured, header, sheet, mockSubmissions, clock, upd, last, rows, parsed,
                   pc, users, form, dash>>

---------------------------------------------------------------------------
(* Logins against a Users table                                            *)

\* Most data rows of the Users sheet.
MaxUsers == 2

\* Rows of the Users sheet: a user; an admin written with capitals and
\* blanks; the user's email once more as admin; a row without role cell; a
\* row whose role cell is neither of the two roles; a row left blank between
\* two others.
UserRowSet ==
    { <<User1, <<"p", "w">>, RoleUser>>,
      <<<<" ", "A", "d", "@", "x">>, <<"p", "w", " ">>, <<"A", "d", "m", "i", "n", " ">>>>,
      <<User1, <<"p", "w">>, RoleAdmin>>,
      <<User2, <<"p", "w">>>>,
      <<User2, <<"p", "w">>, <<"b", "o", "s", "s">>>>,
      <<>> }

\* The data rows of a Users sheet: they end with a row that is not blank.
UserTables ==
    { t \in UNION { [1..n -> UserRowSet] : n \in 0..MaxUsers } :
        t = <<>> \/ t[Len(t)] # <<>> }

\* What is typed into the form: emails and passwords of the Users sheet
\* when there is a store, of the built-in logins when there is none.
TypedEmails ==
    IF configured
    THEN { <<>>, <<" ">>, User1, <<" ", "U", "1", "@", "x", " ">>, User2, Admin1 }
    ELSE { <<>>, MockAdminEmail, MockUserEmail, ToLowerCase(<<" ">> \o MockAdminEmail) }

TypedPasswords ==
    IF configured THEN { <<" ", "p", "w">>, <<"n", "o">> } ELSE { MockPassword, <<"n", "o">> }

\* Whether the calls of the store succeed; without a store none is made.
StoreOutcomes == IF configured THEN BOOLEAN ELSE {TRUE}

InitLogin ==
    /\ configured \in BOOLEAN
    /\ users \in UserTables
    /\ ~configured => users = <<>>
    /\ auth = LoggedOut
    /\ form = FormAtRest
    /\ dash = DashAtRest
    /\ header = [c \in Company |-> "absent"]
    /\ sheet = [c \in Company |-> <<>>]
    /\ mockSubmissions = <<>>
    /\ clock = 36000
    /\ upd = NoCall
    /\ last = NoCall
    /\ rows = <<>>
    /\ parsed = <<>>
    /\ pc = "input"

Login ==
    \E email \in TypedEmails, role \in {RoleUser, RoleAdmin},
       password \in TypedPasswords, storeOk \in StoreOutcomes :
        handleLogin(email, role, password, storeOk)

RoleLookup ==
    \E email \in TypedEmails, storeOk \in StoreOutcomes :
        getUserRoleByEmail(email, storeOk)

NextLogin == Login \/ RoleLookup \/ logout

SpecLogin == InitLogin /\ [][NextLogin]_vars

---------------------------------------------------------------------------
(* Payloads of the form                                                    *)

\* Most line items of one payload.
MaxItems == 3

\* Line items as the form holds them: a number, or '' for a field left
\* empty.
DeductionSet ==
    { [ contractName |-> Str(<<"k", "1">>), itemName |-> Str(<<"i", "1">>),
        workDescription |-> Str(<<"w", "1">>),
        meterEquivalentValue |-> Num(1250), meterEquivalentUnit |-> Str(meterUnits[2]),
        quantity |-> Num(200), unitPrice |-> Num(300), personName |-> Str(<<>>) ],
      [ contractName |-> Str(<<"k", "2">>), itemName |-> Str(<<"i", "2">>),
        workDescription |-> Str(<<"w", "2">>),
        meterEquivalentValue |-> Str(<<>>), meterEquivalentUnit |-> Str(<<>>),
        quantity |-> Num(150), unitPrice |-> Num(50), personName |-> Str(<<"p">>) ],
      [ contractName |-> Str(<<"k", "1">>), itemName |-> Str(<<"i", "3">>),
        workDescription |-> Str(<<"w", "3">>),
        meterEquivalentValue |-> Num(700), meterEquivalentUnit |-> Str(meterUnits[3]),
        quantity |-> Str(<<"x">>), unitPrice |-> Num(200), personName |-> Str(<<>>) ] }

\* A contractor with notes, one whose name reads as an integer and one
\* whose name is a property name of Object.prototype.
PayloadNames == {<<"A", "l", "i">>, <<"7">>, <<"c", "o", "n", "s", "t", "r", "u", "c", "t", "o", "r">>}

PayloadNotes(nm) == IF nm = <<"A", "l", "i">> THEN <<"n", "1">> ELSE <<>>

\* The contractors with exactly n line items.
ContractorSet(n) ==
    { [ id |-> <<"c", "-">> \o nm, contractorName |-> Str(nm),
        notes |-> Str(PayloadNotes(nm)), deductions |-> ds ] :
        nm \in PayloadNames, ds \in [1..n -> DeductionSet] }

\* The numbers of line items of the contractors of a payload: at least one
\* contractor, at least one line item each, at most MaxItems in all.
RECURSIVE Shapes(_)
Shapes(m) ==
    IF m = 0 THEN {<<>>}
    ELSE {<<>>} \cup UNION { {<<k>> \o s : s \in Shapes(m - k)} : k \in 1..m }

RECURSIVE ContractorLists(_)
ContractorLists(shape) ==
    IF shape = <<>> THEN {<<>>}
    ELSE { <<c>> \o cs : c \in ContractorSet(shape[1]), cs \in ContractorLists(Tail(shape)) }

PayloadSet ==
    { [ company |-> c, contractors |-> cs, userEmail |-> User1 ] :
        c \in Company,
        cs \in UNION { ContractorLists(sh) : sh \in Shapes(MaxItems) \ {<<>>} } }

---------------------------------------------------------------------------
(* One submission and its reconstruction                                   *)

InitRoundTrip ==
    /\ configured = TRUE
    /\ header = [c \in Company |-> "absent"]
    /\ sheet = [c \in Company |-> <<>>]
    /\ mockSubmissions = <<>>
    /\ clock \in {36000, 118800}
    /\ upd = NoCall
    /\ last = NoCall
    /\ rows = <<>>
    /\ parsed = <<>>
    /\ pc = "input"
    /\ users = <<>>
    /\ auth = LoggedOut
    /\ form = FormAtRest
    /\ dash = DashAtRest

SubmitOnce ==
    /\ mockSubmissions = <<>>
    /\ \E payload \in PayloadSet : submitDeductions(payload, "none")

ReadBack ==
    /\ mockSubmissions # <<>>
    /\ getAllSubmissions("none", "none")

NextRoundTrip == SubmitOnce \/ ReadBack

SpecRoundTrip == InitRoundTrip /\ [][NextRoundTrip]_vars

---------------------------------------------------------------------------
(* One submission to a store whose calls can fail                          *)

\* With a store: a DMC sheet that is absent, one without its headers, and
\* one with its headers and a row of an earlier submission. Without a
\* store: no sheet.
InitSubmit ==
    /\ configured \in BOOLEAN
    /\ \E h \in {"absent", "stale", "current"} :
          /\ ~configured => h = "absent"
          /\ header = [c \in Company |-> IF c = DMC THEN h ELSE "absent"]
          /\ sheet = [c \in Company |->
                         IF c = DMC /\ h = "current"
                         THEN <<GridRow(MkRow(Date1, Time2, <<"B", "a", "d", "r">>,
                                             BaseVariant))>>
                         ELSE <<>>]
    /\ mockSubmissions = <<>>
    /\ clock = 36060
    /\ upd = NoCall
    /\ last = NoCall
    /\ rows = <<>>
    /\ parsed = <<>>
    /\ pc = "input"
    /\ users = <<>>
    /\ auth = LoggedOut
    /\ form = FormAtRest
    /\ dash = DashAtRest

SubmitMayFail ==
    /\ mockSubmissions = <<>>
    /\ \E payload \in {p \in PayloadSet : p.company = DMC},
          fail \in SubmitFailures(DMC) :
           submitDeductions(payload, fail)

\* The history view of the submitting user or of another user, loaded
\* after the submission.
HistoryAfter ==
    /\ Len(mockSubmissions) = 1
    /\ last.op = "submitDeductions"
    /\ \E userEmail \in {User1, User2} :
          getSubmissionHistory(userEmail, Undefined, Undefined, "none", "none")

NextSubmit == SubmitMayFail \/ HistoryAfter

SpecSubmit == InitSubmit /\ [][NextSubmit]_vars

---------------------------------------------------------------------------
(* Status updates on tables that already hold rows                         *)

\* Most data rows of the DMC table at the start.
MaxSheetRows == 2

\* Data rows of a table: of one minute, of the same minute with seconds in
\* the time cell, of another minute, and one already approved.
SheetRowSet ==
    { GridRow(MkRow(Date1, Time1, <<"A", "l", "i">>, BaseVariant)),
      GridRow(MkRow(Date1, Time1s, <<"A", "l", "i">>, BaseVariant)),
      GridRow(MkRow(Date1, Time2, <<"A", "l", "i">>, BaseVariant)),
      GridRow(MkRow(Date1, Time1, <<"B", "a", "d", "r">>,
                    CHOOSE v \in RowVariants : v.status = APPROVED)) }

SheetLists(n) == UNION { [1..k -> SheetRowSet] : k \in 0..n }

\* The report ids asked for: those of the two minutes, and one of no row.
ReportIds ==
    { ReportPrefix \o ReplaceSpaceColon(Date1 \o <<" ">> \o Time1),
      ReportPrefix \o ReplaceSpaceColon(Date1 \o <<" ">> \o Time2),
      ReportPrefix \o ReplaceSpaceColon(Date2 \o <<" ">> \o Time2) }

InitSheet ==
    /\ configured = TRUE
    /\ sheet \in [Company -> SheetLists(MaxSheetRows)]
    /\ sheet[CURVE] \in {<<>>, <<GridRow(MkRow(Date1, Time1, <<"A", "l", "i">>, BaseVariant))>>}
    /\ header \in [Company -> {"absent", "current"}]
    /\ \A c \in Company : header[c] = "absent" => sheet[c] = <<>>
    /\ mockSubmissions = <<>>
    /\ clock = 36060
    /\ upd = NoCall
    /\ last = NoCall
    /\ rows = <<>>
    /\ parsed = <<>>
    /\ pc = "input"
    /\ users = <<>>
    /\ auth = LoggedOut
    /\ form = FormAtRest
    /\ dash = DashAtRest

UpdateCall ==
    \E reportId \in ReportIds, company \in Company, newStatus \in {APPROVED, REJECTED} :
        /\ updateReportStatus(reportId, company, newStatus, Admin1, TRUE)
        /\ UNCHANGED dash

\* The store applies the batch.
UpdateDone == updateReportStatusDone(TRUE) /\ UNCHANGED dash

NextSheet == UpdateCall \/ UpdateDone

SpecSheet == InitSheet /\ [][NextSheet]_vars

---------------------------------------------------------------------------
(* The server actions on a store that starts empty                         *)

\* Most calls of submitDeductions in one behaviour.
MaxSubmits == 2

\* Submissions of one contractor with one line item.
SmallPayloads ==
    { [ company |-> c, contractors |-> <<k>>, userEmail |-> User1 ] :
        c \in Company,
        k \in { x \in ContractorSet(1) : /\ x.deductions[1].quantity = Num(200)
                                         /\ x.notes # Str(<<>>) } }

\* The report id the dashboard shows for a report of the first instant of
\* the clock: with a store the key made of its date and time, without one
\* the first two in-process ids.
KnownReportIds ==
    IF configured
    THEN {ReportPrefix \o ReplaceSpaceColon(cairoDate(36000) \o <<" ">> \o cairoTime(36000))}
    ELSE {<<"u", "u", "i", "d", "-">> \o Digits(1), <<"u", "u", "i", "d", "-">> \o Digits(2)}

Init ==
    /\ configured \in BOOLEAN
    /\ header = [c \in Company |-> "absent"]
    /\ sheet = [c \in Company |-> <<>>]
    /\ mockSubmissions = <<>>
    /\ clock = 36000
    /\ upd = NoCall
    /\ last = NoCall
    /\ rows = <<>>
    /\ parsed = <<>>
    /\ pc = "input"
    /\ users = <<>>
    /\ auth = LoggedOut
    /\ form = FormAtRest
    /\ dash = DashAtRest

Submit ==
    /\ Len(mockSubmissions) < MaxSubmits
    /\ \E payload \in SmallPayloads :
          \E fail \in SubmitFailures(payload.company) : submitDeductions(payload, fail)

\* The admin dashboard's approve and reject buttons.
Update ==
    \E reportId \in KnownReportIds, company \in Company, status \in {APPROVED, REJECTED} :
        \E storeOk \in StoreOutcomes :
            /\ updateReportStatus(reportId, company, status, Admin1, storeOk)
            /\ UNCHANGED dash

\* The store answers the batch of the call in flight.
UpdateAnswered ==
    \E storeOk \in StoreOutcomes : updateReportStatusDone(storeOk) /\ UNCHANGED dash

\* The outcomes of the store calls of a read, for the DMC and for the CURVE
\* sheet: all succeed, the values.get of the DMC rows fails, the first call
\* made for the CURVE sheet fails.
ReadOutcomes ==
    { f \in {<<"none", "none">>, <<"read", "none">>, <<"none", "ensure">>} :
        f[1] \in ReadFailures(DMC) /\ f[2] \in ReadFailures(CURVE) }

\* The admin dashboard loads all reports.
AdminRead == \E f \in ReadOutcomes : getAllSubmissions(f[1], f[2])

\* The history view of a user, without a range or for the first day.
History ==
    \E userEmail \in {User1, User2}, range \in {Undefined, Str(Date1)}, f \in ReadOutcomes :
        getSubmissionHistory(userEmail, range, range, f[1], f[2])

Next == Submit \/ Update \/ UpdateAnswered \/ AdminRead \/ History \/ Tick

Spec == Init /\ [][Next]_vars

---------------------------------------------------------------------------
(* Submissions and decisions only                                          *)

\* The operations that write data rows: submissions and status updates, as
\* time passes.
NextDecide == Submit \/ Update \/ UpdateAnswered \/ Tick

SpecDecide == Init /\ [][NextDecide]_vars

---------------------------------------------------------------------------
(* Vocabulary of the properties                                            *)

\* Indices of the elements of a sequence.
Idx(s) == 1..Len(s)

\* All line items of a report, contractor after contractor.
RECURSIVE FlatDeductions(_)
FlatDeductions(cs) ==
    IF cs = <<>> THEN <<>> ELSE cs[1].deductions \o FlatDeductions(Tail(cs))

\* A number in hundredths, not-a-number counted as 0.
ZeroIfNaN(n) == IF n.t = "number" THEN n.v ELSE 0

\* Sum of quantity x unit price over line items, not-a-number counted as 0.
RECURSIVE SumOfLines(_)
SumOfLines(ds) ==
    IF ds = <<>> THEN 0
    ELSE ((ZeroIfNaN(ds[1].quantity) * ZeroIfNaN(ds[1].unitPrice)) \div 100)
            + SumOfLines(Tail(ds))

\* The input rows of a report, in input order.
RowsOfReport(s) == SelectSeq(rows, LAMBDA r : timestampKey(r) = s.timestamp)

\* The input rows of one contractor of a report, in input order.
RowsOfContractor(s, c) ==
    SelectSeq(RowsOfReport(s), LAMBDA r : Cell(r, 4) = c.contractorName)

\* The text of a cell, empty when the cell is empty or missing.
CellText(row, i) == IF i < Len(row) THEN row[i + 1] ELSE <<>>

\* Position of the first space of a string, 0 when it has none.
FirstSpace(s) ==
    IF \E i \in Idx(s) : s[i] = " "
    THEN CHOOSE i \in Idx(s) : s[i] = " " /\ \A j \in 1..(i - 1) : s[j] # " "
    ELSE 0

---------------------------------------------------------------------------
(* Properties of parseSubmissionsFromRows, under SpecParse                 *)

\* C1: every reconstructed report's grandTotal is the sum over its line
\* items of quantity x unit price, a non-numeric quantity or price counting
\* as 0, so that it is always a number.
C1_GrandTotalCountsNonNumericAsZero ==
    pc = "parsed" =>
        \A i \in Idx(parsed) :
            parsed[i].grandTotal = Num(SumOfLines(FlatDeductions(parsed[i].contractors)))

\* C3: the meter-equivalent cell is split on its first space only: every row
\* gives a line item whose value is the number before that space and whose
\* unit is the whole remainder; an empty or missing cell gives an unset
\* value and an empty unit.
C3_MeterSplitOnFirstSpaceOnly ==
    pc = "parsed" =>
        \A k \in Idx(rows) :
            LET cell == CellText(rows[k], 8)
                sp == FirstSpace(cell)
                value == IF cell = <<>> THEN Str(<<>>)
                         ELSE IF sp = 0 THEN ParseFloatStr(cell)
                         ELSE ParseFloatStr(Take(cell, sp - 1))
                unit == IF sp = 0 THEN <<>> ELSE Drop(cell, sp)
            IN  (cell = <<>> \/ sp > 1) =>
                    \E i \in Idx(parsed) :
                        \E d \in {x \in {FlatDeductions(parsed[i].contractors)[j] :
                                      j \in Idx(FlatDeductions(parsed[i].contractors))} :
                                      x.workDescription = Cell(rows[k], 7)} :
                            /\ d.meterEquivalentValue = value
                            /\ d.meterEquivalentUnit = Str(unit)

\* C6: the number of reports is the number of distinct (date, time) pairs
\* of cells among the input rows, for arbitrary cell strings.
C6_OneReportPerDateTimePair ==
    pc = "parsed" =>
        Len(parsed) = Cardinality({<<Cell(rows[k], 0), Cell(rows[k], 1)>> : k \in Idx(rows)})

\* C7: the rows of a report are sub-grouped by exact contractor name: the
\* call returns, every report has one contractor per distinct contractor
\* name among its rows, and every row of the report is one line item of the
\* contractor of its name, in row order.
C7_ContractorsByExactName ==
    pc # "input" =>
        /\ pc = "parsed"
        /\ \A i \in Idx(parsed) :
            LET s == parsed[i]
                names == {Cell(r, 4) : r \in {RowsOfReport(s)[k] : k \in Idx(RowsOfReport(s))}}
            IN  /\ Len(s.contractors) = Cardinality(names)
                /\ {s.contractors[j].contractorName : j \in Idx(s.contractors)} = names
                /\ \A j \in Idx(s.contractors) :
                       LET mine == RowsOfContractor(s, s.contractors[j])
                           ds == s.contractors[j].deductions
                       IN  /\ Len(ds) = Len(mine)
                           /\ \A k \in Idx(ds) :
                                  /\ ds[k].workDescription = Cell(mine[k], 7)
                                  /\ ds[k].itemName = Cell(mine[k], 6)

\* C8: rows with the same (date, time, contractor name) are reconstructed
\* into one contractor with one line item per row, whose notes are the notes
\* cell of the first such row.
C8_NotesOfFirstRow ==
    pc # "input" =>
        /\ pc = "parsed"
        /\ \A i \in Idx(parsed) :
            \A j \in Idx(parsed[i].contractors) :
                LET c == parsed[i].contractors[j]
                    mine == RowsOfContractor(parsed[i], c)
                IN  /\ Len(c.deductions) = Len(mine)
                    /\ c.notes = Str(CellText(mine[1], 13))
                    /\ \A k \in Idx(parsed[i].contractors) :
                           parsed[i].contractors[k].contractorName = c.contractorName => k = j

\* C9 as stated: the header is that of the first row of the group, and the
\* status is the pending-review literal exactly when the first row's status
\* cell is empty or missing.
C9_PendingExactlyWhenStatusCellEmpty ==
    pc = "parsed" =>
        \A i \in Idx(parsed) :
            LET first == RowsOfReport(parsed[i])[1]
            IN  /\ parsed[i].company = Cell(first, 3)
                /\ parsed[i].userEmail = Cell(first, 2)
                /\ (parsed[i].status = Str(PENDING)) <=> (CellText(first, 14) = <<>>)

\* C9 as amended: the company and the user of a report are those of the
\* first row of its group; its status is the first row's status cell when
\* that cell is not empty, and the pending-review literal when it is empty
\* or missing; the cells of later rows do not count.
C9_HeaderOfFirstRow ==
    pc = "parsed" =>
        \A i \in Idx(parsed) :
            LET first == RowsOfReport(parsed[i])[1]
            IN  /\ parsed[i].company = Cell(first, 3)
                /\ parsed[i].userEmail = Cell(first, 2)
                /\ parsed[i].status =
                       Str(IF CellText(first, 14) = <<>> THEN PENDING
                           ELSE CellText(first, 14))

\* Witness of C9: a report whose first row has no status cell and whose
\* second row, of another user and company, is approved.
C9_Witness ==
    /\ pc = "parsed"
    /\ Len(rows) = 2
    /\ Len(parsed) = 1
    /\ CellText(rows[1], 14) = <<>>
    /\ CellText(rows[2], 14) = APPROVED
    /\ Cell(rows[1], 2) # Cell(rows[2], 2)
    /\ Cell(rows[1], 3) # Cell(rows[2], 3)
    /\ parsed[1].status = Str(PENDING)

\* C10: the returned list is in descending order of the timestamp strings:
\* no report is followed by one with a greater timestamp, and no two reports
\* have the same timestamp.
C10_SortedDescending ==
    pc = "parsed" =>
        /\ \A i \in 1..(Len(parsed) - 1) :
               ~StrLess(parsed[i].timestamp, parsed[i + 1].timestamp)
        /\ \A i, j \in Idx(parsed) :
               parsed[i].timestamp = parsed[j].timestamp => i = j

\* Witness of C10: three rows given in ascending order of their timestamps
\* and returned as three reports.
C10_Witness ==
    /\ pc = "parsed"
    /\ Len(rows) = 3
    /\ Len(parsed) = 3
    /\ StrLess(timestampKey(rows[1]), timestampKey(rows[2]))
    /\ StrLess(timestampKey(rows[2]), timestampKey(rows[3]))
    /\ parsed[1].timestamp = timestampKey(rows[3])

---------------------------------------------------------------------------
(* Properties of one submission read back (SpecRoundTrip)                  *)

\* The submission as it was handed to submitDeductions.
Submitted == mockSubmissions[1]

\* The contractors of a submission have pairwise distinct names.
DistinctNames(cs) ==
    \A i, j \in Idx(cs) : cs[i].contractorName = cs[j].contractorName => i = j

\* A reconstructed line item is the submitted one: same contract, item and
\* work, same quantity and unit price (a field left empty counted as 0).
SameLine(got, sent) ==
    /\ got.contractName = sent.contractName
    /\ got.itemName = sent.itemName
    /\ got.workDescription = sent.workDescription
    /\ ZeroIfNaN(got.quantity) = ZeroIfNaN(sent.quantity)
    /\ ZeroIfNaN(got.unitPrice) = ZeroIfNaN(sent.unitPrice)

\* A reconstructed contractor holds the line items of the submitted one, in
\* their order.
SameContractor(got, sent) ==
    /\ got.contractorName = sent.contractorName
    /\ Len(got.deductions) = Len(sent.deductions)
    /\ \A k \in Idx(sent.deductions) : SameLine(got.deductions[k], sent.deductions[k])

\* The rows of one submission have been asked for.
ReadBackDone ==
    /\ last.op = "getAllSubmissions"
    /\ Len(mockSubmissions) = 1
    /\ DistinctNames(Submitted.contractors)

\* C2: the rows emitted by submitDeductions for one submission whose
\* contractors have pairwise distinct names reconstruct to exactly one
\* report with the same contractors, each with its line items in their
\* original order, and a grandTotal equal to the sum of quantity x unit
\* price of the submitted line items.
C2_RoundTrip ==
    ReadBackDone =>
        /\ Len(parsed) = 1
        /\ Len(parsed[1].contractors) = Len(Submitted.contractors)
        /\ \A i \in Idx(Submitted.contractors) :
              \E j \in Idx(parsed[1].contractors) :
                  SameContractor(parsed[1].contractors[j], Submitted.contractors[i])
        /\ parsed[1].grandTotal = Num(SumOfLines(FlatDeductions(Submitted.contractors)))

---------------------------------------------------------------------------
(* Properties of the status update (SpecSheet)                             *)

\* p is a prefix of s.
IsPrefix(p, s) == Len(p) <= Len(s) /\ Take(s, Len(p)) = p

\* 'report-<date>-<time>' of a stored row, whitespace and colons replaced
\* by '-'.
DerivedKey(row) ==
    ReportPrefix \o ReplaceSpaceColon(row[1]) \o <<"-">> \o ReplaceSpaceColon(row[2])

\* The data rows of a company's table whose derived key has reportId as a
\* prefix.
Selected(company, reportId) ==
    { n \in Idx(sheet[company]) : IsPrefix(reportId, DerivedKey(sheet[company][n])) }

\* The status cell and the three audit cells of a row.
AuditCells(row) == SubSeq(row, 15, 18)

\* The call has read the rows and asks the store for its batch.
BatchRequested == upd = NoCall /\ upd' # NoCall

\* The store applies the batch of the call.
BatchWritten == upd # NoCall /\ upd' = NoCall

\* C4: updateReportStatus with a store selects exactly the data rows of the
\* company's table whose derived key has the reportId as a prefix, and
\* overwrites the status cell and the three audit cells of every selected
\* row with the same four values in one batch write; no other cell changes.
C4_SelectsByPrefixOneBatch ==
    [][ /\ BatchRequested =>
              /\ { upd'.requests[i].rowIndex - 1 : i \in Idx(upd'.requests) }
                     = Selected(upd'.company, upd'.reportId)
              /\ Len(upd'.requests) = Cardinality(Selected(upd'.company, upd'.reportId))
        /\ BatchWritten =>
              /\ Len(sheet'[upd.company]) = Len(sheet[upd.company])
              /\ \E v \in { AuditCells(sheet'[upd.company][n]) :
                               n \in Selected(upd.company, upd.reportId) } :
                    /\ v[1] = upd.newStatus
                    /\ v[4] = upd.adminEmail
                    /\ \A n \in Selected(upd.company, upd.reportId) :
                          sheet'[upd.company][n] = Take(sheet[upd.company][n], 14) \o v
              /\ \A n \in Idx(sheet[upd.company]) \ Selected(upd.company, upd.reportId) :
                    sheet'[upd.company][n] = sheet[upd.company][n]
              /\ \A c \in Company \ {upd.company} : sheet'[c] = sheet[c]
      ]_vars

\* A row of time 10:00 and a row of time 10:00:05 of the DMC table both
\* carry the decision of one successful update.
C4_Witness ==
    /\ last.op = "updateReportStatus"
    /\ last.success
    /\ \E m, n \in Idx(sheet[DMC]) :
          /\ sheet[DMC][m][2] = Time1
          /\ sheet[DMC][n][2] = Time1s
          /\ AuditCells(sheet[DMC][m]) = AuditCells(sheet[DMC][n])
          /\ sheet[DMC][m][15] = REJECTED
          /\ sheet[DMC][m][18] = Admin1

\* A call of updateReportStatus returns or asks the store for its batch.
UpdateCalled == upd = NoCall /\ (upd' # NoCall \/ last' # last)

\* C5: when no stored row of the company's table matches the reportId (an
\* empty table included), updateReportStatus with a store fails with an
\* error, performs no write and leaves every cell of the store unchanged.
C5_NoMatchFailsWithoutWrite ==
    [][ /\ BatchRequested => Selected(upd'.company, upd'.reportId) # {}
        /\ (UpdateCalled /\ upd' = NoCall
                /\ Selected(last'.company, last'.reportId) = {}) =>
              /\ last'.threw
              /\ ~last'.success
              /\ sheet' = sheet
              /\ header' = header
      ]_vars

\* A call on a table with rows, none of them matching, has thrown; the
\* table is as it was.
C5_Witness ==
    /\ last.op = "updateReportStatus"
    /\ last.threw
    /\ sheet[last.company] # <<>>
    /\ Selected(last.company, last.reportId) = {}
    /\ \A n \in Idx(sheet[last.company]) : sheet[last.company][n] \in SheetRowSet
    /\ upd = NoCall

---------------------------------------------------------------------------
(* Properties of the login (SpecLogin)                                     *)

\* The roles stored for an email and a password: those of the rows of the
\* Users sheet with that email (trimmed, in lower case) and that password
\* (trimmed), a missing role cell counting as user; without a store those of
\* the two built-in logins.
StoredRoles(email, password) ==
    IF configured
    THEN { LET cell == ToLowerCase(Trim(CellText(users[i], 2)))
           IN  IF cell = <<>> THEN RoleUser ELSE cell :
             i \in { k \in Idx(users) :
                       /\ ToLowerCase(Trim(CellText(users[k], 0))) = ToLowerCase(Trim(email))
                       /\ Trim(CellText(users[k], 1)) = Trim(password) } }
    ELSE IF password # MockPassword THEN {}
    ELSE IF email = MockAdminEmail THEN {RoleAdmin}
    ELSE IF email = MockUserEmail THEN {RoleUser}
    ELSE {}

\* The email and the password are stored, but not with the requested role.
RoleMismatch(email, password, role) ==
    /\ StoredRoles(email, password) # {}
    /\ role \notin StoredRoles(email, password)

\* handleLogin has run in this step.
LoginStep ==
    /\ last'.op = "handleLogin"
    /\ last' # last \/ (auth' # auth /\ auth'.isAuthenticated)

\* C11: a login attempt whose requested role differs from the role stored
\* for the matching email and password is rejected: validateUser returns
\* isValid = false with role null, and the session store stays as it was.
C11_RoleMismatchRejected ==
    [][ (LoginStep /\ last'.called
            /\ RoleMismatch(last'.email, last'.password, last'.expectedRole)) =>
              /\ last'.result = [isValid |-> FALSE, role |-> Null]
              /\ auth' = auth
      ]_vars

\* The stored user's password typed against the admin path of a store that
\* answers: rejected, nobody logged in.
C11_Witness ==
    /\ last.op = "handleLogin"
    /\ last.called
    /\ configured
    /\ ~last.storeFailed
    /\ last.expectedRole = RoleAdmin
    /\ StoredRoles(last.email, last.password) = {RoleUser}
    /\ ~last.result.isValid
    /\ auth = LoggedOut

\* The user table as email and role: the rows of the Users sheet, a role
\* cell that is not admin counting as user; without a store the two
\* built-in users.
UserTable ==
    IF configured
    THEN [i \in Idx(users) |->
            [ email |-> ToLowerCase(Trim(CellText(users[i], 0))),
              role |-> IF ToLowerCase(Trim(CellText(users[i], 2))) = RoleAdmin
                       THEN RoleAdmin ELSE RoleUser ]]
    ELSE << [email |-> MockAdminEmail, role |-> RoleAdmin],
            [email |-> MockUserEmail, role |-> RoleUser] >>

\* The rows of the user table with the email, trimmed and in lower case.
RowsOfEmail(email) ==
    { i \in Idx(UserTable) : UserTable[i].email = ToLowerCase(Trim(email)) }

\* C12: getUserRoleByEmail returns the role of a user-table row whose email
\* cell, trimmed and in lower case, equals the trimmed lower-case input,
\* and none when no row matches or the email is empty; inputs that differ
\* only in letter case or surrounding white space give the same result.
C12_RoleByTrimmedLowerCaseEmail ==
    (last.op = "getUserRoleByEmail" /\ ~last.storeFailed) =>
        /\ (last.email = <<>> \/ RowsOfEmail(last.email) = {}) => last.result = Null
        /\ (last.email # <<>> /\ RowsOfEmail(last.email) # {}) =>
              \E i \in RowsOfEmail(last.email) : last.result = Str(UserTable[i].role)
        /\ \A other \in TypedEmails :
              ToLowerCase(Trim(other)) = ToLowerCase(Trim(last.email)) =>
                  roleByEmail(other, TRUE) = last.result

---------------------------------------------------------------------------
(* Properties of one submission to the store (SpecSubmit)                  *)

\* The rows a step adds after the last row of a company's table.
AppendedRows(c) == SubSeq(sheet'[c], Len(sheet[c]) + 1, Len(sheet'[c]))

\* A step of submitDeductions that reports success.
SubmitSucceeds == last'.op = "submitDeductions" /\ last' # last /\ ~last'.threw

\* The (contractor, line item) pairs of a report, contractor after
\* contractor, each contractor's line items in their order.
RECURSIVE FlatPairs(_)
FlatPairs(cs) ==
    IF cs = <<>> THEN <<>>
    ELSE [k \in Idx(cs[1].deductions) |->
             [contractor |-> cs[1], deduction |-> cs[1].deductions[k]]]
         \o FlatPairs(Tail(cs))

\* C13: all rows appended by one submitDeductions call carry the same date
\* cell and the same time cell, the date and the time of the one reading of
\* the clock made by the call.
C13_OneTimestampPerSubmission ==
    [][ \A c \in Company : \A i \in Idx(AppendedRows(c)) :
            /\ CellText(AppendedRows(c)[i], 0) = cairoDate(clock)
            /\ CellText(AppendedRows(c)[i], 1) = cairoTime(clock)
            /\ \A j \in Idx(AppendedRows(c)) :
                  /\ CellText(AppendedRows(c)[i], 0) = CellText(AppendedRows(c)[j], 0)
                  /\ CellText(AppendedRows(c)[i], 1) = CellText(AppendedRows(c)[j], 1) ]_vars

\* A submission of three contractors has been appended after an earlier row.
C13_Witness ==
    /\ last.op = "submitDeductions"
    /\ ~last.threw
    /\ Len(mockSubmissions) = 1
    /\ Len(Submitted.contractors) = 3
    /\ Len(sheet[DMC]) = 4

\* The number a quantity or a unit price stands for, in hundredths; 0 when
\* it is not numeric.
NumericOrZero(x) == ZeroIfNaN(ToNumber(x))

\* C14: submitDeductions with a store emits exactly one row per
\* (contractor, line item) pair of the payload, contractor after contractor
\* in their order; each row carries the payload's user and company, the
\* contractor's name and notes, a total cell equal to quantity x unit price
\* with a non-numeric quantity or price taken as 0, and the pending-review
\* status.
C14_OneRowPerLineItem ==
    [][ (SubmitSucceeds /\ configured) =>
          \E sent \in {mockSubmissions'[Len(mockSubmissions')]} :
            \E pairs \in {FlatPairs(sent.contractors)} :
              \E new \in {AppendedRows(sent.company.s)} :
                /\ Len(new) = Len(pairs)
                /\ \A c \in Company \ {sent.company.s} : AppendedRows(c) = <<>>
                /\ \A k \in Idx(pairs) :
                      /\ Str(CellText(new[k], 2)) = sent.userEmail
                      /\ Str(CellText(new[k], 3)) = sent.company
                      /\ Str(CellText(new[k], 4)) = pairs[k].contractor.contractorName
                      /\ Str(CellText(new[k], 13)) = pairs[k].contractor.notes
                      /\ Str(CellText(new[k], 5)) = pairs[k].deduction.contractName
                      /\ Str(CellText(new[k], 6)) = pairs[k].deduction.itemName
                      /\ CellText(new[k], 11) =
                            FormatNumber((NumericOrZero(pairs[k].deduction.quantity)
                                           * NumericOrZero(pairs[k].deduction.unitPrice)) \div 100)
                      /\ CellText(new[k], 14) = PENDING ]_vars

\* A submission with a line item whose quantity is not numeric has been
\* appended.
C14_Witness ==
    /\ configured
    /\ last.op = "submitDeductions"
    /\ ~last.threw
    /\ Len(mockSubmissions) = 1
    /\ Len(Submitted.contractors) = 2
    /\ \E k \in Idx(FlatDeductions(Submitted.contractors)) :
          /\ ToNumber(FlatDeductions(Submitted.contractors)[k].quantity) = NaN
          /\ CellText(sheet[DMC][Len(sheet[DMC]) - Len(FlatDeductions(Submitted.contractors)) + k], 11)
                = <<"0">>

\* C15: submitDeductions writes the rows of a submission with one append of
\* the whole batch: after the call either all rows of the submission are in
\* the company's table and the call reported success, or the call failed
\* with an error and none of its rows are in the table.
C15_AppendAllOrNothing ==
    [][ (last'.op = "submitDeductions" /\ last' # last /\ configured) =>
          \E n \in {Len(FlatDeductions(mockSubmissions'[Len(mockSubmissions')].contractors))} :
            \/ /\ ~last'.threw
               /\ last'.success
               /\ Len(AppendedRows(DMC)) = n
               /\ \A k \in 1..n : CellText(AppendedRows(DMC)[k], 14) = PENDING
            \/ /\ last'.threw
               /\ ~last'.success
               /\ sheet' = sheet ]_vars

\* The append of a submission of three line items has failed.
C15_Witness ==
    /\ last.op = "submitDeductions"
    /\ last.threw
    /\ last.failedAt = "append"
    /\ Len(mockSubmissions) = 1
    /\ Len(FlatDeductions(Submitted.contractors)) = 3
    /\ sheet[DMC] = <<>>

\* A mock-mode submission of the payload recorded by the step.
MockSubmitStep ==
    /\ ~configured
    /\ Len(mockSubmissions') = Len(mockSubmissions) + 1

\* Sum of quantity x unit price over line items, in hundredths, a
\* non-numeric quantity or price counted as 0.
RECURSIVE SumOfPayloadLines(_)
SumOfPayloadLines(ds) ==
    IF ds = <<>> THEN 0
    ELSE ((NumericOrZero(ds[1].quantity) * NumericOrZero(ds[1].unitPrice)) \div 100)
            + SumOfPayloadLines(Tail(ds))

\* A history read without a store and without a date range.
MockHistoryStep ==
    /\ ~configured
    /\ last'.op = "getSubmissionHistory"
    /\ last' # last
    /\ last'.startDate = Undefined
    /\ last'.endDate = Undefined

\* C20: without a store, submitDeductions returns success and appends
\* exactly one Submission to the in-process list, holding the payload's
\* user, company and contractors, the pending-review status and a
\* grandTotal equal to the sum of quantity x unit price (non-numeric as 0);
\* a following getSubmissionHistory without date range returns the
\* submission for the same user and does not return it for another user.
C20_MockSubmitThenHistory ==
    [][ /\ MockSubmitStep =>
             /\ last'.op = "submitDeductions"
             /\ last'.success
             /\ ~last'.threw
             /\ SubSeq(mockSubmissions', 1, Len(mockSubmissions)) = mockSubmissions
             /\ \E new \in {mockSubmissions'[Len(mockSubmissions')]} :
                   /\ new.userEmail = Str(last'.payload.userEmail)
                   /\ new.company = Str(last'.payload.company)
                   /\ new.contractors = last'.payload.contractors
                   /\ new.status = Str(PENDING)
                   /\ new.grandTotal = Num(SumOfPayloadLines(FlatDeductions(new.contractors)))
        /\ MockHistoryStep =>
             /\ \A i \in Idx(mockSubmissions) :
                   (mockSubmissions[i].userEmail = Str(last'.userEmail))
                       <=> (\E k \in Idx(parsed') : parsed'[k] = mockSubmissions[i])
             /\ \A k \in Idx(parsed') : \E i \in Idx(mockSubmissions) :
                   parsed'[k] = mockSubmissions[i] ]_vars

\* Without a store, the history of the submitting user returns the
\* submission made just before, one with a non-numeric quantity.
C20_Witness ==
    /\ ~configured
    /\ last.op = "getSubmissionHistory"
    /\ last.userEmail = User1
    /\ Len(mockSubmissions) = 1
    /\ parsed = <<Submitted>>
    /\ Len(Submitted.contractors) = 2
    /\ \E k \in Idx(FlatDeductions(Submitted.contractors)) :
          ToNumber(FlatDeductions(Submitted.contractors)[k].quantity) = NaN

---------------------------------------------------------------------------
(* Store failures (SpecLogin)                                              *)

\* C16: when a store call made by a public operation fails, the operation
\* fails with an error to its caller instead of returning a normal result
\* (here for the two operations on the Users sheet, getUserRoleByEmail and
\* validateUser as called by the login form).
C16_StoreFailureIsAnError ==
    (last.op \in {"getUserRoleByEmail", "handleLogin"} /\ last.storeFailed) => last.threw

---------------------------------------------------------------------------
(* Properties of the submissions tables (Spec, SpecDecide)                 *)

\* The step is the batch write of an updateReportStatus call.
StatusWriteStep == upd # NoCall /\ upd' = NoCall /\ last'.op = "updateReportStatus"

\* C17: across any sequence of operations, data rows of the submissions
\* tables are never removed or reordered and the first 14 cells of an
\* existing row never change; the only operation that changes cells of an
\* existing data row is updateReportStatus, and it changes only the status
\* cell and the three audit cells.
C17_RowsOnlyGrowAuditOnly ==
    [][ \A c \in Company :
          /\ Len(sheet'[c]) >= Len(sheet[c])
          /\ \A i \in Idx(sheet[c]) :
                /\ Len(sheet'[c][i]) = Len(sheet[c][i])
                /\ Take(sheet'[c][i], 14) = Take(sheet[c][i], 14)
                /\ sheet'[c][i] # sheet[c][i] => StatusWriteStep ]_vars

\* After a decision on the first row of a table a second row has been
\* appended, and the tables have been read.
C17_Witness ==
    /\ last.op = "getAllSubmissions"
    /\ \E c \in Company :
          /\ Len(sheet[c]) = 2
          /\ CellText(sheet[c][1], 14) = APPROVED
          /\ CellText(sheet[c][2], 14) = PENDING
          /\ CellText(sheet[c][1], 13) # <<>>

\* The status cell of a row has been decided.
Decided(row) == CellText(row, 14) \in {APPROVED, REJECTED}

\* C18: starting from empty tables, after any sequence of submitDeductions
\* and updateReportStatus calls made through the application, the status
\* cell of every data row is the pending-review literal, the approved one or
\* the rejected one; once a row is approved or rejected it never returns to
\* pending-review.
C18_ThreeStatusLiterals ==
    [][ \A c \in Company : \A i \in Idx(sheet'[c]) :
          /\ CellText(sheet'[c][i], 14) \in {PENDING, APPROVED, REJECTED}
          /\ (i <= Len(sheet[c]) /\ Decided(sheet[c][i])) => Decided(sheet'[c][i]) ]_vars

\* A row approved in the first minute has been rejected in the second.
C18_Witness ==
    /\ last.op = "updateReportStatus"
    /\ last.success
    /\ \E c \in Company :
          /\ sheet[c] # <<>>
          /\ CellText(sheet[c][1], 14) = REJECTED
          /\ CellText(sheet[c][1], 16) = cairoTime(36060)
          /\ clock = 36060

\* Between the read of a status update and its batch write, rows whose key
\* has the call's reportId as a prefix have been appended to the table.
InterleavedAppend ==
    /\ upd # NoCall
    /\ \E i \in Idx(sheet[upd.company]) :
          /\ i > upd.rowsRead
          /\ IsPrefix(upd.reportId, DerivedKey(sheet[upd.company][i]))

\* C19: updateReportStatus is not atomic across its read and its batch
\* write: when a submitDeductions append of rows with a matching key comes
\* between the two steps and the store applies the batch, the update
\* succeeds, the appended rows keep the pending-review status, and the rows
\* written are exactly the rows that matched at read time.
C19_InterleavedAppendMissed ==
    [][ (InterleavedAppend /\ upd' = NoCall /\ ~last'.threw) =>
          /\ last'.op = "updateReportStatus"
          /\ last'.success
          /\ Len(sheet'[upd.company]) = Len(sheet[upd.company])
          /\ \A i \in Idx(sheet[upd.company]) :
                IF i <= upd.rowsRead /\ IsPrefix(upd.reportId, DerivedKey(sheet[upd.company][i]))
                THEN /\ Take(sheet'[upd.company][i], 14) = Take(sheet[upd.company][i], 14)
                     /\ AuditCells(sheet'[upd.company][i])
                           = <<upd.newStatus, CellText(sheet'[upd.company][i], 15),
                               CellText(sheet'[upd.company][i], 16), upd.adminEmail>>
                     /\ IsDateString(CellText(sheet'[upd.company][i], 15))
                ELSE /\ sheet'[upd.company][i] = sheet[upd.company][i]
                     /\ (i > upd.rowsRead => CellText(sheet'[upd.company][i], 14) = PENDING) ]_vars

\* An update has succeeded and left pending a row of the key it decided,
\* appended while it was in flight.
C19_Witness ==
    /\ last.op = "updateReportStatus"
    /\ last.success
    /\ \E c \in Company :
          /\ Len(sheet[c]) = 2
          /\ Take(sheet[c][1], 2) = Take(sheet[c][2], 2)
          /\ Decided(sheet[c][1])
          /\ CellText(sheet[c][2], 14) = PENDING

---------------------------------------------------------------------------
(* Status updates without a store (SpecDecide)                             *)

\* A call of updateReportStatus without a store has returned.
MockUpdateStep ==
    /\ ~configured
    /\ last'.op = "updateReportStatus"
    /\ (last' # last \/ mockSubmissions' # mockSubmissions)

\* The in-process submissions that carry a reportId.
MockEntries(reportId) == { i \in Idx(mockSubmissions) : mockSubmissions[i].reportId = reportId }

\* C21: without a store, updateReportStatus never throws: if an in-process
\* submission has the given reportId it sets the status of that one
\* submission only and reports success; otherwise it returns an
\* unsuccessful result naming the missing configuration and leaves the
\* in-process list unchanged.
C21_MockUpdateNeverThrows ==
    [][ MockUpdateStep =>
          /\ ~last'.threw
          /\ Len(mockSubmissions') = Len(mockSubmissions)
          /\ IF MockEntries(last'.reportId) # {}
             THEN /\ last'.success
                  /\ Cardinality(MockEntries(last'.reportId)) = 1
                  /\ \A i \in Idx(mockSubmissions) :
                        IF i \in MockEntries(last'.reportId)
                        THEN /\ mockSubmissions'[i].status \in {Str(APPROVED), Str(REJECTED)}
                             /\ [mockSubmissions'[i] EXCEPT !.status = Str(PENDING)]
                                   = [mockSubmissions[i] EXCEPT !.status = Str(PENDING)]
                        ELSE mockSubmissions'[i] = mockSubmissions[i]
             ELSE /\ ~last'.success
                  /\ last'.message = "not configured"
                  /\ mockSubmissions' = mockSubmissions ]_vars

\* Of two in-process submissions the second has been rejected and the
\* first is still pending.
C21_Witness ==
    /\ ~configured
    /\ last.op = "updateReportStatus"
    /\ last.success
    /\ Len(mockSubmissions) = 2
    /\ \E i, j \in Idx(mockSubmissions) :
          /\ mockSubmissions[i].status = Str(REJECTED)
          /\ mockSubmissions[j].status = Str(PENDING)

---------------------------------------------------------------------------
(* The in-process list when a store is configured (SpecSubmit)             *)

\* C26: with a store, submitDeductions leaves the in-process list as it was
\* before the call, both when the append or the header bootstrap fails and
\* the call throws, and when the call succeeds.
C26_ConfiguredSubmitKeepsMockList ==
    [][ (configured /\ last'.op = "submitDeductions" /\ last' # last) =>
          mockSubmissions' = mockSubmissions ]_vars

---------------------------------------------------------------------------
(* Rows of other reports (SpecSheet)                                       *)

\* C25: updateReportStatus changes only rows that reconstruct into the
\* report whose reportId was given: a row whose own reconstructed reportId
\* differs from the given one keeps its status and audit cells.
C25_OtherReportsUntouched ==
    [][ BatchWritten =>
          \A c \in Company : \A i \in Idx(sheet[c]) :
              (c # upd.company \/ DerivedKey(sheet[c][i]) # upd.reportId)
                  => AuditCells(sheet'[c][i]) = AuditCells(sheet[c][i]) ]_vars


\* The passwords that match a row of the Users sheet, and the built-in one.
CandidatePasswords ==
    { sheetPassword(ReadUsers[i]) : i \in 1..Len(users) } \cup {MockPassword}

\* C29: validateUser and getUserRoleByEmail agree on every user table: when
\* validateUser(email, password, role) succeeds, getUserRoleByEmail(email)
\* returns that role; and when getUserRoleByEmail returns a role for an
\* email, some password makes validateUser succeed with that role.
C29_ValidateAgreesWithRoleLookup ==
    /\ (last.op = "handleLogin" /\ last.called /\ last.result.isValid)
          => roleByEmail(last.email, TRUE) = last.result.role
    /\ (last.op = "getUserRoleByEmail" /\ last.result # Null)
          => \E password \in CandidatePasswords :
                LET v == validateUser(last.email, password, last.result.s, TRUE)
                IN  v.isValid /\ v.role = last.result


\* The three fields of the session store say the same.
SessionConsistent ==
    /\ auth.isAuthenticated <=> auth.email # Null
    /\ auth.isAuthenticated <=> auth.role # Null

\* A step that leaves somebody logged in: it is a handleLogin whose
\* validateUser call returned isValid with the role of the submitted form,
\* and the store holds the typed email and that role.
LoggedInByValidation ==
    /\ last'.op = "handleLogin"
    /\ last'.called
    /\ last'.result.isValid
    /\ last'.result.role = Str(last'.expectedRole)
    /\ auth' = [ email |-> Str(last'.email), role |-> Str(last'.expectedRole),
                 isAuthenticated |-> TRUE ]

\* C27: over every sequence of logins and logouts the session store stays
\* consistent (isAuthenticated iff email is non-null iff role is non-null);
\* a step that changes the store either is a logout, which leaves the initial
\* unauthenticated state, or a login made after validateUser returned isValid
\* with the role of the submitted form.
C27_SessionConsistent ==
    /\ []SessionConsistent
    /\ [][ /\ auth' # auth => (auth' = LoggedOut \/ LoggedInByValidation)
           /\ (LoginStep /\ last'.called /\ last'.result.isValid) => LoggedInByValidation
           /\ (LoginStep /\ ~(last'.called /\ last'.result.isValid)) => auth' = auth ]_vars

\* The form logged somebody in after a valid validateUser call, and a logout
\* followed: the store is back at its initial state.
C27_Witness ==
    /\ last.op = "handleLogin"
    /\ last.called
    /\ last.result.isValid
    /\ last.result.role = Str(RoleAdmin)
    /\ configured
    /\ auth = LoggedOut


---------------------------------------------------------------------------
(* The login form: the email field and its debounced role lookup           *)

\* Most role lookups in flight at a time.
MaxLookups == 2

\* s without its i-th element.
RemoveAt(s, i) == [j \in 1..(Len(s) - 1) |-> IF j < i THEN s[j] ELSE s[j + 1]]

\* setEmail(e.target.value): the field changes, the effect's cleanup clears
\* the timer that was set and the effect sets a new one.
setEmail(e) ==
    /\ e # form.email
    /\ form' = [form EXCEPT !.email = e, !.timer = TRUE]
    /\ UNCHANGED <<storeVars, rows, parsed, pc, users, auth, dash>>

\* The timer fires after 500 ms: for an email it starts getUserRoleByEmail,
\* for an empty field it sets userRole to null.
roleCheckTimer ==
    /\ form.timer
    /\ form.email # <<>> => Len(form.lookups) < MaxLookups
    /\ form' = IF form.email # <<>>
               THEN [form EXCEPT !.timer = FALSE, !.lookups = Append(@, form.email)]
               ELSE [form EXCEPT !.timer = FALSE, !.userRole = Null]
    /\ UNCHANGED <<storeVars, rows, parsed, pc, users, auth, dash>>

\* A lookup in flight returns: setUserRole(role).
roleCheckAnswer(i, storeOk) ==
    /\ i \in 1..Len(form.lookups)
    /\ form' = [form EXCEPT !.userRole = roleByEmail(form.lookups[i], storeOk),
                            !.lookups = RemoveAt(@, i)]
    /\ UNCHANGED <<storeVars, rows, parsed, pc, users, auth, dash>>

\* What is typed into the email field.
FormEmails ==
    IF configured THEN {<<>>, User1, Admin1, User2}
    ELSE {<<>>, MockUserEmail, MockAdminEmail, User2}

\* A Users sheet with a user and an admin, or no store.
InitForm ==
    /\ configured \in BOOLEAN
    /\ users = IF configured
               THEN << <<User1, <<"p", "w">>, RoleUser>>, <<Admin1, <<"p", "w">>, RoleAdmin>> >>
               ELSE <<>>
    /\ auth = LoggedOut
    /\ form = FormAtRest
    /\ dash = DashAtRest
    /\ header = [c \in Company |-> "absent"]
    /\ sheet = [c \in Company |-> <<>>]
    /\ mockSubmissions = <<>>
    /\ clock = 36000
    /\ upd = NoCall
    /\ last = NoCall
    /\ rows = <<>>
    /\ parsed = <<>>
    /\ pc = "input"

EditEmail == \E e \in FormEmails : setEmail(e)

\* The lookups return in any order; the store answers them.
RoleAnswer == \E i \in 1..MaxLookups : roleCheckAnswer(i, TRUE)

NextForm == EditEmail \/ roleCheckTimer \/ RoleAnswer

SpecForm == InitForm /\ [][NextForm]_vars

---------------------------------------------------------------------------
(* The admin dashboard: status updates started from the report cards       *)

\* Most updateReportStatus calls of the dashboard in flight at a time.
MaxCalls == 2

\* The two reports on the dashboard, by their keys in the store.
DashReportIds ==
    IF configured
    THEN << ReportPrefix \o ReplaceSpaceColon(Date1 \o <<" ">> \o Time1),
            ReportPrefix \o ReplaceSpaceColon(Date1 \o <<" ">> \o Time2) >>
    ELSE << <<"u", "u", "i", "d", "-">> \o Digits(1), <<"u", "u", "i", "d", "-">> \o Digits(2) >>

\* An in-process submission as submitDeductions builds it.
DashMockEntry(n) ==
    LET payload == CHOOSE q \in SmallPayloads : q.company = DMC
    IN  [ reportId |-> <<"u", "u", "i", "d", "-">> \o Digits(n),
          timestamp |-> isoString(36000),
          userEmail |-> Str(payload.userEmail),
          status |-> Str(PENDING),
          company |-> Str(payload.company),
          contractors |-> payload.contractors,
          grandTotal |-> payloadGrandTotal(payload.contractors, 1, Num(0)) ]

\* handleUpdateStatus up to its await: the click on the approve or reject
\* button of the i-th card, which is there only while the button is enabled.
handleUpdateStatus(i, status) ==
    /\ i \in 1..Len(dash.submissions)
    /\ dash.isUpdating # Str(dash.submissions[i].reportId)
    /\ dash.submissions[i].company # Null
    /\ auth.email # Null
    /\ Len(dash.calls) < MaxCalls
    /\ dash' = [dash EXCEPT
                  !.isUpdating = Str(dash.submissions[i].reportId),
                  !.calls = Append(@, [ reportId |-> dash.submissions[i].reportId,
                                        company |-> dash.submissions[i].company.s,
                                        status |-> status, stage |-> "sent",
                                        success |-> FALSE ])]
    /\ UNCHANGED <<storeVars, rows, parsed, pc, users, auth, form>>

\* The server runs the k-th call: updateReportStatus, which without a store
\* or on an error is answered at once and otherwise waits for its batch.
serveUpdate(k, storeOk) ==
    /\ k \in 1..Len(dash.calls)
    /\ dash.calls[k].stage = "sent"
    /\ updateReportStatus(dash.calls[k].reportId, dash.calls[k].company,
                          dash.calls[k].status, auth.email.s, storeOk)
    /\ dash' = [dash EXCEPT !.calls[k] =
                  IF upd' = NoCall
                  THEN [@ EXCEPT !.stage = "answered", !.success = last'.success]
                  ELSE [@ EXCEPT !.stage = "running"]]

\* The store answers the batch of the running call.
serveUpdateDone(storeOk) ==
    /\ \E k \in 1..Len(dash.calls) : dash.calls[k].stage = "running"
    /\ updateReportStatusDone(storeOk)
    /\ dash' = [dash EXCEPT !.calls =
                  [k \in 1..Len(dash.calls) |->
                      IF dash.calls[k].stage = "running"
                      THEN [dash.calls[k] EXCEPT !.stage = "answered",
                                                 !.success = last'.success]
                      ELSE dash.calls[k]]]

\* handleUpdateStatus after its await: on success the status of the report
\* is replaced in the local list; finally isUpdating is set to null.
handleUpdateStatusAnswer(k) ==
    /\ k \in 1..Len(dash.calls)
    /\ dash.calls[k].stage = "answered"
    /\ dash' = [ isUpdating |-> Null,
                 calls |-> RemoveAt(dash.calls, k),
                 submissions |->
                     IF dash.calls[k].success
                     THEN [j \in 1..Len(dash.submissions) |->
                              IF dash.submissions[j].reportId = dash.calls[k].reportId
                              THEN [dash.submissions[j] EXCEPT
                                       !.status = Str(dash.calls[k].status)]
                              ELSE dash.submissions[j]]
                     ELSE dash.submissions ]
    /\ UNCHANGED <<storeVars, rows, parsed, pc, users, auth, form>>

\* An admin on the dashboard, which shows two pending reports of the DMC
\* table or of the in-process list.
InitDash ==
    /\ configured \in BOOLEAN
    /\ header = [c \in Company |-> IF configured /\ c = DMC THEN "current" ELSE "absent"]
    /\ sheet = [c \in Company |->
                  IF configured /\ c = DMC
                  THEN << GridRow(MkRow(Date1, Time1, <<"A", "l", "i">>, BaseVariant)),
                          GridRow(MkRow(Date1, Time2, <<"A", "l", "i">>, BaseVariant)) >>
                  ELSE <<>>]
    /\ mockSubmissions = IF configured THEN <<>> ELSE <<DashMockEntry(1), DashMockEntry(2)>>
    /\ clock = 36060
    /\ upd = NoCall
    /\ last = NoCall
    /\ rows = <<>>
    /\ parsed = <<>>
    /\ pc = "input"
    /\ users = <<>>
    /\ auth = [email |-> Str(Admin1), role |-> Str(RoleAdmin), isAuthenticated |-> TRUE]
    /\ form = FormAtRest
    /\ dash = [ isUpdating |-> Null, calls |-> <<>>,
                submissions |-> [n \in 1..2 |-> [ reportId |-> DashReportIds[n],
                                                  company |-> Str(DMC),
                                                  status |-> Str(PENDING) ]] ]

Click == \E i \in 1..2, status \in {APPROVED, REJECTED} : handleUpdateStatus(i, status)

Serve == \E k \in 1..MaxCalls, storeOk \in StoreOutcomes : serveUpdate(k, storeOk)

ServeDone == \E storeOk \in StoreOutcomes : serveUpdateDone(storeOk)

Answer == \E k \in 1..MaxCalls : handleUpdateStatusAnswer(k)

NextDash == Click \/ Serve \/ ServeDone \/ Answer

SpecDash == InitDash /\ [][NextDash]_vars

\* The approve and reject buttons of every report that has a call in flight
\* are disabled.
ButtonsDisabledWhileInFlight ==
    \A k \in 1..Len(dash.calls) : dash.isUpdating = Str(dash.calls[k].reportId)

\* The status shown for a report changes only when a call for that report is
\* answered with success, and then to the status of that call.
ShownStatusFollowsSuccess ==
    \A j \in 1..Len(dash.submissions) :
        dash'.submissions[j].status # dash.submissions[j].status
            => \E k \in 1..Len(dash.calls) :
                  /\ dash.calls[k].stage = "answered"
                  /\ dash.calls[k].success
                  /\ dash.calls[k].reportId = dash.submissions[j].reportId
                  /\ dash'.submissions[j].status = Str(dash.calls[k].status)
                  /\ Len(dash'.calls) < Len(dash.calls)

\* C28: while an updateReportStatus call for a report is in flight, the
\* report's approve and reject buttons stay disabled until that call
\* completes, also when updates of other reports are started and complete
\* meanwhile; and the status shown for a report changes only after its own
\* update call reported success.
C28_ButtonsDisabledUntilAnswered ==
    /\ []ButtonsDisabledWhileInFlight
    /\ [][ShownStatusFollowsSuccess]_vars

\* C30: once no timer is set and every role lookup has returned, userRole is
\* the role of the email in the field, and null for an empty field.
C30_SettledRoleIsOfCurrentEmail ==
    (~form.timer /\ form.lookups = <<>>)
        => form.userRole = IF form.email = <<>> THEN Null
                           ELSE roleByEmail(form.email, TRUE)


---------------------------------------------------------------------------
(* The history of a user on tables that hold rows of two users             *)

\* Most data rows of the DMC table.
MaxHistoryRows == 3

\* Rows of the DMC table: two users' rows of one minute, a row of the first
\* user of another day, and a row whose date cell is no date.
HistoryRowSet ==
    { GridRow(MkRow(Date1, Time1, <<"A", "l", "i">>, BaseVariant)),
      GridRow(MkRow(Date1, Time1, <<"A", "l", "i">>,
                    [BaseVariant EXCEPT !.user = User2, !.item = <<"i", "2">>])),
      GridRow(MkRow(Date2, Time2, <<"A", "l", "i">>,
                    [BaseVariant EXCEPT !.item = <<"i", "3">>])),
      GridRow(MkRow(<<"1", "/", "6">>, Time1, <<"A", "l", "i">>,
                    [BaseVariant EXCEPT !.item = <<"i", "4">>])) }

\* The date ranges the history view sends: none, one day, two days, and a
\* range that holds no day.
HistoryRanges ==
    { <<Undefined, Undefined>>, <<Str(Date1), Str(Date1)>>, <<Str(Date2), Str(Date1)>>,
      <<Str(Date1), Str(Date2)>> }

InitHistory ==
    /\ configured = TRUE
    /\ sheet \in
          { [c \in Company |-> IF c = DMC THEN d ELSE q] :
              d \in UNION { [1..k -> HistoryRowSet] : k \in 0..MaxHistoryRows },
              q \in {<<>>, <<GridRow(MkRow(Date1, Time1, <<"B", "a", "d", "r">>,
                                           [BaseVariant EXCEPT !.user = User2,
                                                               !.company = CURVE,
                                                               !.item = <<"i", "5">>]))>>} }
    /\ header = [c \in Company |-> IF sheet[c] = <<>> THEN "absent" ELSE "current"]
    /\ mockSubmissions = <<>>
    /\ clock = 36060
    /\ upd = NoCall
    /\ last = NoCall
    /\ rows = <<>>
    /\ parsed = <<>>
    /\ pc = "input"
    /\ users = <<>>
    /\ auth = LoggedOut
    /\ form = FormAtRest
    /\ dash = DashAtRest

HistoryRead ==
    \E userEmail \in {User1, User2}, range \in HistoryRanges, f \in ReadOutcomes :
        getSubmissionHistory(userEmail, range[1], range[2], f[1], f[2])

NextHistory == HistoryRead

SpecHistory == InitHistory /\ [][NextHistory]_vars

\* The stored rows a history call may use: the submitter cell is the user
\* asked for and, when both dates are given, the date cell is a date within
\* them, both included.
Admissible(row) ==
    /\ CellText(row, 2) = last.userEmail
    /\ (last.startDate # Undefined /\ last.endDate # Undefined)
          => /\ IsDateString(CellText(row, 0))
             /\ ~StrLess(CellText(row, 0), last.startDate.s)
             /\ ~StrLess(last.endDate.s, CellText(row, 0))

AdmissibleRows ==
    { <<c, n>> \in Company \X (1..MaxHistoryRows) :
        n <= Len(sheet[c]) /\ Admissible(sheet[c][n]) }

\* The line items of a list of reports.
RECURSIVE AllDeductions(_)
AllDeductions(reports) ==
    IF reports = <<>> THEN <<>>
    ELSE FlatDeductions(reports[1].contractors) \o AllDeductions(Tail(reports))

\* C22: with a store, getSubmissionHistory builds its reports only from the
\* rows whose submitter cell is the user asked for and, when both dates are
\* given, whose date cell is a YYYY-MM-DD string within them (both bounds
\* included): every report and every line item of the result comes from
\* such a row, also when another user's rows share the (date, time) key, and
\* when every sheet was read every such row gives one line item.
C22_HistoryOnlyOwnRowsInRange ==
    (configured /\ last.op = "getSubmissionHistory" /\ ~last.threw)
        => /\ \A s \in 1..Len(parsed) : parsed[s].userEmail = Str(last.userEmail)
           /\ \A d \in 1..Len(AllDeductions(parsed)) :
                 \E cn \in AdmissibleRows :
                     AllDeductions(parsed)[d].itemName = Cell(sheet[cn[1]][cn[2]], 6)
           /\ ~last.storeFailed
                 => Len(AllDeductions(parsed)) = Cardinality(AdmissibleRows)

\* A history of one day for the first user, from a table that holds a row
\* of the second user with the same (date, time) key and a row of the first
\* user of another day: one line item is returned.
C22_Witness ==
    /\ last.op = "getSubmissionHistory"
    /\ ~last.threw
    /\ ~last.storeFailed
    /\ last.userEmail = User1
    /\ last.startDate = Str(Date1)
    /\ last.endDate = Str(Date1)
    /\ Len(sheet[DMC]) = 3
    /\ CellText(sheet[DMC][1], 2) = User2
    /\ CellText(sheet[DMC][2], 2) = User1
    /\ timestampKey(sheet[DMC][1]) = timestampKey(sheet[DMC][2])
    /\ CellText(sheet[DMC][3], 0) = Date2
    /\ Len(AllDeductions(parsed)) = 1


\* The report holds the line items of the submit call logged as e: the same
\* submitter and company, and contractor by contractor the same lines.
ReportOfCall(report, e) ==
    /\ report.userEmail = e.userEmail
    /\ report.company = e.company
    /\ Len(report.contractors) = Len(e.contractors)
    /\ \A k \in Idx(e.contractors) :
          /\ k <= Len(report.contractors)
          /\ SameContractor(report.contractors[k], e.contractors[k])

\* C23: every report returned by getAllSubmissions holds the line items of
\* exactly one submitDeductions call (one submitter, one company), also
\* when two calls happen within one clock minute.
C23_OneReportPerSubmit ==
    (configured /\ last.op = "getAllSubmissions" /\ ~last.threw /\ ~last.storeFailed)
        => \A s \in Idx(parsed) :
              \E n \in Idx(mockSubmissions) : ReportOfCall(parsed[s], mockSubmissions[n])


\* The rows getAllSubmissions reads: those of the DMC table, then those of
\* the CURVE table.
StoredRows == sheet[DMC] \o sheet[CURVE]

\* The call in flight was made as the dashboard makes it: with the reportId
\* of a report of getAllSubmissions and with that report's company, which
\* is the company cell of the first row of the report.
CalledAsDashboard ==
    LET mine == SelectSeq(StoredRows, LAMBDA r : DerivedKey(r) = upd.reportId)
    IN  /\ mine # <<>>
        /\ CellText(mine[1], 3) = upd.company

\* C24: after updateReportStatus succeeds when called with the reportId and
\* company of a report returned by getAllSubmissions, every stored row that
\* reconstructs into that report carries the new status, also when rows of
\* that (date, time) exist in both companies' tables.
C24_WholeReportDecided ==
    [][ (BatchWritten /\ CalledAsDashboard /\ last'.success)
           => \A c \in Company : \A i \in Idx(sheet'[c]) :
                 DerivedKey(sheet'[c][i]) = upd.reportId
                    => CellText(sheet'[c][i], 14) = upd.newStatus ]_vars

===========================================================================
